---- MODULE Spec2Model ----
(***************************************************************************)
(* Attendance reconciliation and delay computation of src/app.py:          *)
(* the staff classifier, the threshold policy, the deadline-model delay    *)
(* calculator and the identity-free mutation handlers of one DayFile.      *)
(*                                                                         *)
(* Representation.  A Python str that the code inspects (staff ids, time   *)
(* of day texts, category and department texts) is the sequence of its     *)
(* character codes, so strip(), upper(), lower(), "in" and strptime are    *)
(* computed as Python computes them.  A stored timestamp text (the value   *)
(* of an event's checkin / checkout field) is a record                     *)
(*   [kind, day, sec, ms]    kind = "empty"  the text ''                   *)
(*                           kind = "junk"   a text no format parses       *)
(*                           kind = "iso"    YYYY-MM-DDTHH:MM:SS[.fff]     *)
(* with day a day number (day 0 is a Monday), sec the second of the day    *)
(* and ms the milliseconds.  A delay is the TLA+ string the code returns.  *)
(***************************************************************************)
EXTENDS Integers, Sequences, FiniteSets, TLC

VARIABLES
    faculty,     \* _faculty_cache: profile table, key text -> profile
    date,        \* the day number of the DayFile (date_str / date_obj)
    file,        \* the DayFile: the list of events stored for `date`
    shape,       \* the DayFile on disk: "absent", "list" or "object" (no list)
    last,        \* history: the last request handled and its response
    query,       \* classifier probe: the faculty_id last classified
    staff_type,  \* classifier / calculator probe: a staff type
    window,      \* threshold probe: last result of get_thresholds_for
    result,      \* calculator probe: last result of the delay calculator
    inflight,    \* request threads that have read the DayFile and not yet written
    store,       \* the attendance directory: file name -> raw file content
    report,      \* the value returned by the last read-only or batch operation
    source,      \* the source directory of the sync: file name -> mtime, content
    tracking     \* the tracking map of the sync: file name -> last-seen mtime

vars == <<faculty, date, file, shape, last, query, staff_type, window, result,
          inflight, store, report, source, tracking>>

(***************************************************************************)
(* Bounds of the model.                                                    *)
(***************************************************************************)
MaxEvents == 3     \* longest DayFile the mutation handlers are run on
MaxRecs == 3       \* longest record list given to the delay calculator

(***************************************************************************)
(* Python str operations on character-code sequences.                      *)
(***************************************************************************)
IsSpace(c) == c \in {9, 10, 11, 12, 13, 32}

IsDigit(c) == c >= 48 /\ c <= 57

UpperCh(c) == IF c >= 97 /\ c <= 122 THEN c - 32 ELSE c

LowerCh(c) == IF c >= 65 /\ c <= 90 THEN c + 32 ELSE c

Upper(s) == [i \in 1..Len(s) |-> UpperCh(s[i])]

Lower(s) == [i \in 1..Len(s) |-> LowerCh(s[i])]

RECURSIVE LStrip(_)
LStrip(s) == IF s # <<>> /\ IsSpace(s[1]) THEN LStrip(Tail(s)) ELSE s

RECURSIVE RStrip(_)
RStrip(s) ==
    IF s # <<>> /\ IsSpace(s[Len(s)]) THEN RStrip(SubSeq(s, 1, Len(s) - 1)) ELSE s

Strip(s) == RStrip(LStrip(s))

\* Python `pat in s` on str
Contains(s, pat) ==
    \E i \in 1..(Len(s) - Len(pat) + 1) : SubSeq(s, i, i + Len(pat) - 1) = pat

\* Python str `<` : lexicographic on code points, a proper prefix is smaller
RECURSIVE StrLess(_, _)
StrLess(a, b) ==
    IF b = <<>> THEN FALSE
    ELSE IF a = <<>> THEN TRUE
    ELSE IF a[1] # b[1] THEN a[1] < b[1]
    ELSE StrLess(Tail(a), Tail(b))

\* s.split(':')
RECURSIVE SplitColon(_)
SplitColon(s) ==
    IF \A i \in 1..Len(s) : s[i] # 58 THEN <<s>>
    ELSE LET k == CHOOSE i \in 1..Len(s) :
                      s[i] = 58 /\ \A j \in 1..(i - 1) : s[j] # 58
         IN  <<SubSeq(s, 1, k - 1)>> \o SplitColon(SubSeq(s, k + 1, Len(s)))

(***************************************************************************)
(* Texts of the model: staff ids, profile texts, times of day.             *)
(***************************************************************************)
ID_T1 == <<84, 49>>          \* "T1"
ID_t1 == <<116, 49, 32>>     \* "t1 "
ID_W3 == <<87, 51>>          \* "W3"
ID_X9 == <<88, 57>>          \* "X9"

CAT_TEACHING_FACULTY == <<84, 101, 97, 99, 104, 105, 110, 103, 32, 70, 97, 99, 117, 108, 116, 121>>  \* "Teaching Faculty"
CAT_NON_TEACHING_FACULTY == <<78, 111, 110, 45, 84, 101, 97, 99, 104, 105, 110, 103, 32, 70, 97, 99, 117, 108, 116, 121>>  \* "Non-Teaching Faculty"
CAT_TEACHING_STAFF == <<84, 101, 97, 99, 104, 105, 110, 103, 32, 83, 116, 97, 102, 102>>  \* "Teaching Staff"
CAT_NON_TEACHING_UPPER == <<32, 78, 79, 78, 45, 84, 69, 65, 67, 72, 73, 78, 71, 32>>  \* " NON-TEACHING "
CAT_GUEST == <<71, 117, 101, 115, 116>>  \* "Guest"

DEPT_COMPUTER_APPLICATIONS == <<67, 111, 109, 112, 117, 116, 101, 114, 32, 65, 112, 112, 108, 105, 99, 97, 116, 105, 111, 110, 115>>  \* "Computer Applications"
DEPT_ADMIN_OFFICE == <<65, 100, 109, 105, 110, 105, 115, 116, 114, 97, 116, 105, 118, 101, 32, 79, 102, 102, 105, 99, 101>>  \* "Administrative Office"
DEPT_SUPPORT_SERVICES == <<83, 117, 112, 112, 111, 114, 116, 32, 83, 101, 114, 118, 105, 99, 101, 115>>  \* "Support Services"
DEPT_COMMERCE == <<67, 111, 109, 109, 101, 114, 99, 101>>  \* "Commerce"
DEPT_ADMIN_SUPPORT == <<65, 100, 109, 105, 110, 105, 115, 116, 114, 97, 116, 105, 111, 110, 32, 38, 32, 83, 117, 112, 112, 111, 114, 116>>  \* "Administration & Support"

\* the str literals of determine_staff_type
PAT_teaching_faculty == <<116, 101, 97, 99, 104, 105, 110, 103, 32, 102, 97, 99, 117, 108, 116, 121>>  \* 'teaching faculty'
PAT_non_teaching == <<110, 111, 110, 45, 116, 101, 97, 99, 104, 105, 110, 103>>  \* 'non-teaching'
PAT_computer_applications == <<99, 111, 109, 112, 117, 116, 101, 114, 32, 97, 112, 112, 108, 105, 99, 97, 116, 105, 111, 110, 115>>  \* 'computer applications'
PAT_support == <<115, 117, 112, 112, 111, 114, 116>>  \* 'support'
PAT_administrative == <<97, 100, 109, 105, 110, 105, 115, 116, 114, 97, 116, 105, 118, 101>>  \* 'administrative'
PAT_administration == <<97, 100, 109, 105, 110, 105, 115, 116, 114, 97, 116, 105, 111, 110>>  \* 'administration'

T_0910 == <<48, 57, 58, 49, 48, 58, 48, 48>>   \* "09:10:00"
T_0940 == <<48, 57, 58, 52, 48, 58, 48, 48>>   \* "09:40:00"
T_940 == <<57, 58, 52, 48, 58, 48, 48>>        \* "9:40:00"
T_2500 == <<50, 53, 58, 48, 48, 58, 48, 48>>   \* "25:00:00"
T_1600 == <<49, 54, 58, 48, 48, 58, 48, 48>>   \* "16:00:00"
T_1645 == <<49, 54, 58, 52, 53, 58, 48, 48>>   \* "16:45:00"
T_1661 == <<49, 54, 58, 54, 49, 58, 48, 48>>   \* "16:61:00"

(***************************************************************************)
(* Times of day, datetimes, stored timestamp texts.                        *)
(***************************************************************************)
\* dt_time(h, m) as the second of the day
HM(h, m) == h * 3600 + m * 60

\* a datetime as milliseconds since day 0, 00:00
Stamp(dt) == (dt.day * 86400 + dt.sec) * 1000 + dt.ms

\* datetime.combine(dt.date(), t) for a time of day t (second of the day)
Combine(dt, t) == (dt.day * 86400 + t) * 1000

\* date_obj.weekday(): 0 = Monday ... 5 = Saturday, 6 = Sunday
Weekday(d) == d % 7

NoText == [kind |-> "empty", day |-> 0, sec |-> 0, ms |-> 0]

JunkText == [kind |-> "junk", day |-> 0, sec |-> 0, ms |-> 0]

\* datetime.isoformat() of a datetime on day d at second s (+ ms)
IsoText(d, s, m) == [kind |-> "iso", day |-> d, sec |-> s, ms |-> m]

\* parse_ts: the datetime of a stored text, <<>> for None
parse_ts(value) ==
    IF value.kind = "iso"
    THEN <<[day |-> value.day, sec |-> value.sec, ms |-> value.ms]>>
    ELSE <<>>

\* the value of a 1- or 2-digit field
FieldVal(f) == IF Len(f) = 1 THEN f[1] - 48 ELSE (f[1] - 48) * 10 + (f[2] - 48)

FieldOk(f) == Len(f) \in {1, 2} /\ \A i \in 1..Len(f) : IsDigit(f[i])

\* datetime.strptime(text, "%H:%M:%S").time(): <<second of the day>>, or <<>>
\* when strptime raises ValueError
strptime_HMS(text) ==
    LET fs == SplitColon(text) IN
    IF Len(fs) = 3 /\ \A i \in 1..3 : FieldOk(fs[i])
    THEN LET h == FieldVal(fs[1])
             m == FieldVal(fs[2])
             s == FieldVal(fs[3])
         IN  IF h <= 23 /\ m <= 59 /\ s <= 59 THEN <<h * 3600 + m * 60 + s>> ELSE <<>>
    ELSE <<>>

TwoDigits(n) == <<48 + (n \div 10), 48 + (n % 10)>>

\* dt.strftime("%H:%M:%S")
strftime_HMS(dt) ==
    TwoDigits(dt.sec \div 3600) \o <<58>> \o TwoDigits((dt.sec % 3600) \div 60)
        \o <<58>> \o TwoDigits(dt.sec % 60)

\* f"{n:02d}"
Pad2(n) == IF n < 10 THEN "0" \o ToString(n) ELSE ToString(n)

_seconds_to_hhmmss(total_seconds) ==
    LET t == IF total_seconds < 0 THEN 0 ELSE total_seconds IN
    Pad2(t \div 3600) \o ":" \o Pad2((t % 3600) \div 60) \o ":" \o Pad2(t % 60)

\* round(td.total_seconds()) for a timedelta of x >= 0 milliseconds
\* (Python 3 round: half to even)
RoundSeconds(x) ==
    LET q == x \div 1000
        r == x % 1000
    IN  IF 2 * r < 1000 THEN q
        ELSE IF 2 * r > 1000 THEN q + 1
        ELSE IF q % 2 = 0 THEN q ELSE q + 1

\* int(math.ceil(td.total_seconds())) for a timedelta of x >= 0 milliseconds
CeilSeconds(x) == IF x % 1000 = 0 THEN x \div 1000 ELSE (x \div 1000) + 1

(***************************************************************************)
(* Staff Classifier.                                                       *)
(***************************************************************************)
NoProfile == [name |-> "", category |-> <<>>, department |-> <<>>]

\* load_faculty_details().get(key) or {}  /  .get(key, {})
FacultyGet(key) == IF key \in DOMAIN faculty THEN faculty[key] ELSE NoProfile

\* Variant of NonTeachingType with the administrative test moved first
\* (sensitivity of C5_ResolutionOrder).
NonTeachingType_AdminFirst(department) ==
    IF Contains(department, PAT_administrative)
       \/ Contains(department, PAT_administration) THEN "admin"
    ELSE IF Contains(department, PAT_computer_applications) THEN "support"
    ELSE IF Contains(department, PAT_support) THEN "support"
    ELSE "admin"

\* the department tests of a non-teaching profile, in the code's order
NonTeachingType(department) ==
    IF Contains(department, PAT_computer_applications) THEN "support"
    ELSE IF Contains(department, PAT_support) THEN "support"
    ELSE IF Contains(department, PAT_administrative)
            \/ Contains(department, PAT_administration) THEN "admin"
    ELSE "admin"

\* the staff type of a profile, from its category and department texts
StaffTypeOf(details) ==
    LET category == Lower(Strip(details.category))
        department == Lower(Strip(details.department))
    IN  IF category = PAT_teaching_faculty THEN "teaching"
        ELSE IF Contains(category, PAT_non_teaching) THEN NonTeachingType(department)
        ELSE "teaching"

determine_staff_type(faculty_id) == StaffTypeOf(FacultyGet(Upper(Strip(faculty_id))))

(***************************************************************************)
(* Threshold Policy.                                                       *)
(***************************************************************************)
\* Variant of get_thresholds_for taking Sunday for the short day
\* (sensitivity of C4_ThresholdTable).
get_thresholds_for_SundayShort(date_obj, st) ==
    LET is_saturday == (Weekday(date_obj) = 6) IN
    IF st = "teaching"
    THEN <<HM(9, 25), IF is_saturday THEN HM(13, 0) ELSE HM(16, 30)>>
    ELSE IF st = "admin"
    THEN <<HM(9, 15), IF is_saturday THEN HM(13, 30) ELSE HM(17, 15)>>
    ELSE <<HM(8, 30), IF is_saturday THEN HM(13, 30) ELSE HM(17, 15)>>

\* <<checkin_deadline, checkout_after>> as seconds of the day
get_thresholds_for(date_obj, st) ==
    LET is_saturday == (Weekday(date_obj) = 5) IN
    IF st = "teaching"
    THEN <<HM(9, 25), IF is_saturday THEN HM(13, 0) ELSE HM(16, 30)>>
    ELSE IF st = "admin"
    THEN <<HM(9, 15), IF is_saturday THEN HM(13, 30) ELSE HM(17, 15)>>
    ELSE <<HM(8, 30), IF is_saturday THEN HM(13, 30) ELSE HM(17, 15)>>

(***************************************************************************)
(* Delay Calculator (deadline model).                                      *)
(***************************************************************************)
\* r.get(field) for a time field: the stored text; a missing key gives None,
\* which parse_ts treats as the text ''
RowGet(r, field) == IF field \in DOMAIN r THEN r[field] ELSE NoText

\* the datetimes parse_ts gives for one field of the records, in list order
RECURSIVE ParsedField(_, _)
ParsedField(records, field) ==
    IF records = <<>> THEN <<>>
    ELSE parse_ts(RowGet(Head(records), field)) \o ParsedField(Tail(records), field)

\* Variant of EarliestIn taking the last checkin of the list instead of the
\* earliest one (sensitivity of C29_PresenceNeverHurts).
EarliestIn_Last(checkins) == checkins[Len(checkins)]

\* min(checkins)
EarliestIn(checkins) ==
    CHOOSE c \in {checkins[i] : i \in 1..Len(checkins)} :
        \A i \in 1..Len(checkins) : Stamp(c) <= Stamp(checkins[i])

\* Variant of LatestOut taking the first checkout of the list instead of the
\* latest one (sensitivity of C1_DeadlineDelay).
LatestOut_First(checkouts) == checkouts[1]

\* max(checkouts)
LatestOut(checkouts) ==
    CHOOSE c \in {checkouts[i] : i \in 1..Len(checkouts)} :
        \A i \in 1..Len(checkouts) : Stamp(c) >= Stamp(checkouts[i])

\* late_seconds of the earliest checkin against the deadline on its own date
LateSeconds(earliest_in, checkin_deadline) ==
    LET deadline_dt == Combine(earliest_in, checkin_deadline) IN
    IF Stamp(earliest_in) > deadline_dt
    THEN RoundSeconds(Stamp(earliest_in) - deadline_dt)
    ELSE 0

\* early_leave_seconds of the latest checkout against checkout_after on its date
EarlyLeaveSeconds(latest_out, checkout_after) ==
    LET required_dt == Combine(latest_out, checkout_after) IN
    IF Stamp(latest_out) < required_dt
    THEN CeilSeconds(required_dt - Stamp(latest_out))
    ELSE 0

\* Variant of DelayWithoutCheckout returning the sentinel the docstring names
\* (sensitivity of C3_CheckinOnlyDelay).
DelayWithoutCheckout_NA(late_seconds) == "N/A"

\* the branch of the calculator taken when the records hold no usable checkout
DelayWithoutCheckout(late_seconds) == _seconds_to_hhmmss(late_seconds)

\* Variant of DelayWithoutCheckin that still charges an early checkout
\* (sensitivity of C2_NoCheckinZeroDelay).
DelayWithoutCheckin_ChargeCheckout(checkouts, th) ==
    IF checkouts = <<>> THEN _seconds_to_hhmmss(0)
    ELSE LET latest_out == CHOOSE c \in {checkouts[i] : i \in 1..Len(checkouts)} :
                               \A i \in 1..Len(checkouts) : Stamp(c) >= Stamp(checkouts[i])
             required_dt == Combine(latest_out, th[2])
         IN  _seconds_to_hhmmss(
                 IF Stamp(latest_out) < required_dt
                 THEN CeilSeconds(required_dt - Stamp(latest_out)) ELSE 0)

\* the branch of the calculator taken when the records hold no usable checkin
DelayWithoutCheckin(checkouts, th) == _seconds_to_hhmmss(0)

compute_daily_delay_for_records(records, date_obj, st) ==
    LET checkins == ParsedField(records, "checkin")
        checkouts == ParsedField(records, "checkout")
        th == get_thresholds_for(date_obj, st)
    IN  IF checkins = <<>> THEN DelayWithoutCheckin(checkouts, th)
        ELSE LET late_seconds == LateSeconds(EarliestIn(checkins), th[1]) IN
             IF checkouts = <<>> THEN DelayWithoutCheckout(late_seconds)
             ELSE _seconds_to_hhmmss(
                      late_seconds + EarlyLeaveSeconds(LatestOut(checkouts), th[2]))

(***************************************************************************)
(* Events, the profile table of the runs, and the history variable.        *)
(***************************************************************************)
Event(id, nm, ci, co, dl) ==
    [student_id |-> id, name |-> nm, checkin |-> ci, checkout |-> co, delay |-> dl]

\* JSON/faculty_detail.json as loaded by load_faculty_details
FacultyTable ==
    [k \in {ID_T1, ID_W3} |->
        IF k = ID_T1
        THEN [name |-> "Asha", category |-> CAT_TEACHING_FACULTY,
              department |-> DEPT_COMMERCE]
        ELSE [name |-> "Ravi", category |-> CAT_NON_TEACHING_FACULTY,
              department |-> DEPT_COMPUTER_APPLICATIONS]]

NoRequest == [op |-> "none", id |-> <<>>, resp |-> "none", how |-> "none", matches |-> 0]

StaffTypes == {"teaching", "admin", "support"}

\* no request thread is between its read and its write
NoInflight == <<>>

\* an attendance directory without files
NoStore == <<>>

\* an empty source directory and an empty tracking map
NoSource == <<>>

NoTracking == <<>>

\* nothing has been returned yet
NoReport == [op |-> "none", arg |-> <<>>, out |-> <<>>]

(***************************************************************************)
(* Shared steps of the mutation handlers of one DayFile.                   *)
(***************************************************************************)
\* record.get('student_id', '').strip().upper() == faculty_id
SameId(r, fid) == Upper(Strip(r.student_id)) = fid

\* the positions, in file order, of the records of faculty id fid
IndexesOf(records, fid) == {i \in 1..Len(records) : SameId(records[i], fid)}

\* [r for r in records if <same id>]
RECURSIVE RecordsOf(_, _)
RecordsOf(records, fid) ==
    IF records = <<>> THEN <<>>
    ELSE (IF SameId(Head(records), fid) THEN <<Head(records)>> ELSE <<>>)
             \o RecordsOf(Tail(records), fid)

\* [r for r in records if <other id>]
RECURSIVE RecordsNotOf(_, _)
RecordsNotOf(records, fid) ==
    IF records = <<>> THEN <<>>
    ELSE (IF SameId(Head(records), fid) THEN <<>> ELSE <<Head(records)>>)
             \o RecordsNotOf(Tail(records), fid)

\* Variant of FirstOf taking the last matching position (sensitivity of
\* C9_CheckinFirstMatch).
FirstOf_Last(S) == IF S = {} THEN 0 ELSE CHOOSE i \in S : \A j \in S : i >= j

\* the first position of a `for ... break` scan over the positions in S; 0 if none
FirstOf(S) == IF S = {} THEN 0 ELSE CHOOSE i \in S : \A j \in S : i <= j

\* the stored text re-formatted to HH:MM:SS; '' when empty or not parsable
TimeOnly(text) ==
    IF parse_ts(text) = <<>> THEN <<>> ELSE strftime_HMS(parse_ts(text)[1])

\* Python str `<` on two stored timestamp texts: '' first, then the ISO texts
\* in time order, then the junk text (it starts with a letter)
TextLess(a, b) ==
    LET rank(t) == IF t.kind = "empty" THEN 0 ELSE IF t.kind = "iso" THEN 1 ELSE 2 IN
    IF rank(a) # rank(b) THEN rank(a) < rank(b)
    ELSE a.kind = "iso" /\ Stamp(a) < Stamp(b)

\* the sort key of a record is smaller: (id.strip().upper(), checkin) when
\* by_checkin, id.strip().upper() alone otherwise
KeyLess(a, b, by_checkin) ==
    LET ka == Upper(Strip(a.student_id))
        kb == Upper(Strip(b.student_id))
    IN  \/ StrLess(ka, kb)
        \/ by_checkin /\ ka = kb /\ TextLess(a.checkin, b.checkin)

\* x put after the last record whose key is not greater (a stable insertion)
RECURSIVE InsertByKey(_, _, _)
InsertByKey(sorted, x, by_checkin) ==
    IF sorted = <<>> THEN <<x>>
    ELSE IF KeyLess(x, Head(sorted), by_checkin) THEN <<x>> \o sorted
    ELSE <<Head(sorted)>> \o InsertByKey(Tail(sorted), x, by_checkin)

\* Variant of SortRecords that leaves the list in the order it has
\* (sensitivity of C24_StoredOrder).
SortRecords_Unsorted(records, by_checkin) == records

\* records.sort(key=...): list.sort is stable
RECURSIVE SortRecords(_, _)
SortRecords(records, by_checkin) ==
    IF records = <<>> THEN <<>>
    ELSE InsertByKey(SortRecords(SubSeq(records, 1, Len(records) - 1), by_checkin),
                     records[Len(records)], by_checkin)

\* Variant of RecalculateDelays that writes the delay only to the records
\* whose student_id is spelled exactly as the request's id (sensitivity of
\* C7_SameDelayPerStaff).
RecalculateDelays_ExactId(records, fid) ==
    LET faculty_records == RecordsOf(records, Upper(fid)) IN
    IF faculty_records = <<>> THEN records
    ELSE LET delay_val == compute_daily_delay_for_records(
                              faculty_records, date, determine_staff_type(fid))
         IN  [i \in 1..Len(records) |->
                 IF records[i].student_id = fid
                 THEN [records[i] EXCEPT !.delay = delay_val]
                 ELSE records[i]]

\* Variant of RecalculateDelays that writes the delay to every record of the
\* file (sensitivity of C26_OtherStaffUntouched).
RecalculateDelays_Everyone(records, fid) ==
    LET faculty_records == RecordsOf(records, Upper(fid)) IN
    IF faculty_records = <<>> THEN records
    ELSE LET delay_val == compute_daily_delay_for_records(
                              faculty_records, date, determine_staff_type(fid))
         IN  [i \in 1..Len(records) |-> [records[i] EXCEPT !.delay = delay_val]]

\* "Recalculate delays for this faculty": every record of fid gets the delay
\* computed from all the records of fid
RecalculateDelays(records, fid) ==
    LET faculty_records == RecordsOf(records, Upper(fid)) IN
    IF faculty_records = <<>> THEN records
    ELSE LET delay_val == compute_daily_delay_for_records(
                              faculty_records, date, determine_staff_type(fid))
         IN  [i \in 1..Len(records) |->
                 IF SameId(records[i], fid)
                 THEN [records[i] EXCEPT !.delay = delay_val]
                 ELSE records[i]]

\* Variant of PlaceholderRecord carrying the zero delay (sensitivity of
\* C8_PlaceholderAfterLastDelete).
PlaceholderRecord_ZeroDelay(fid) ==
    Event(fid, FacultyGet(Upper(fid)).name, NoText, NoText, "00:00:00")

\* the record the handlers create for a faculty id: empty times, delay N/A
PlaceholderRecord(fid) == Event(fid, FacultyGet(Upper(fid)).name, NoText, NoText, "N/A")

\* Variant of WithPlaceholder that adds nothing (sensitivity of
\* C15_StaffStaysVisible).
WithPlaceholder_Nothing(records, fid) == records

\* records.append(placeholder_record) after the last record of the id went
WithPlaceholder(records, fid) == Append(records, PlaceholderRecord(fid))

\* the outcome of a handler: the DayFile as stored afterwards, the response,
\* the normalized faculty id, how the target record was found and how many
\* records matched the request by value
Outcome(records, fid, resp, how) ==
    [file |-> records, id |-> fid, resp |-> resp, how |-> how, matches |-> 0]

\* "Convert HH:MM:SS format to full datetime": the stored text for a time of
\* day text, <<>> when strptime raises ValueError
FullDatetimeText(text) ==
    IF strptime_HMS(text) = <<>> THEN <<>>
    ELSE <<IsoText(date, strptime_HMS(text)[1], 0)>>

(***************************************************************************)
(* api_update_attendance                                                   *)
(***************************************************************************)
\* new_checkin / new_checkout: the stripped text, '' for a missing value
NewTime(text) == Strip(text)

\* positions whose re-formatted checkin equals current_checkin
CheckinMatches(records, fid, current_checkin) ==
    {i \in IndexesOf(records, fid) : TimeOnly(records[i].checkin) = current_checkin}

\* positions whose re-formatted checkout equals current_checkout and, when
\* current_checkin is given, whose re-formatted checkin equals it
CheckoutMatches(records, fid, current_checkout, current_checkin) ==
    {i \in IndexesOf(records, fid) :
        /\ TimeOnly(records[i].checkout) = current_checkout
        /\ (current_checkin # <<>> => TimeOnly(records[i].checkin) = current_checkin)}

\* the positions of the records the request matches by value
ValueMatches(records, fid, req) ==
    IF req.has_checkin
    THEN CheckinMatches(records, fid, req.current_checkin)
    ELSE IF req.has_checkout
    THEN CheckoutMatches(records, fid, req.current_checkout, req.current_checkin)
    ELSE {}

\* Variant of FallbackTarget that finds no record (sensitivity of
\* C13_FallbackToFirst).
FallbackTarget_None(records, fid) == 0

\* "fall back to first match": the first record of the id in file order
FallbackTarget(records, fid) == FirstOf(IndexesOf(records, fid))

\* target_record: the first match by value, else the first record of the id;
\* index 0 if the id has no record
ResolveTarget(records, fid, req) ==
    LET m == ValueMatches(records, fid, req) IN
    IF m # {} THEN [index |-> FirstOf(m), how |-> "value", matches |-> Cardinality(m)]
    ELSE IF IndexesOf(records, fid) # {}
    THEN [index |-> FallbackTarget(records, fid), how |-> "fallback", matches |-> 0]
    ELSE [index |-> 0, how |-> "new", matches |-> 0]

\* Variant of ApplyTimes that keeps the checkin already applied and skips a
\* checkout that is no HH:MM:SS instead of ending the request (sensitivity of
\* C10_InvalidTimeRejected).
ApplyTimes_SkipBadCheckout(record, req) ==
    LET ci == IF ~req.has_checkin THEN <<record.checkin>>
              ELSE IF NewTime(req.checkin) = <<>> THEN <<NoText>>
              ELSE FullDatetimeText(NewTime(req.checkin))
        co == IF ~req.has_checkout THEN <<record.checkout>>
              ELSE IF NewTime(req.checkout) = <<>> THEN <<NoText>>
              ELSE FullDatetimeText(NewTime(req.checkout))
    IN  IF ci = <<>> THEN [resp |-> "invalid_checkin", rec |-> record]
        ELSE IF co = <<>> THEN [resp |-> "ok", rec |-> [record EXCEPT !.checkin = ci[1]]]
        ELSE [resp |-> "ok",
              rec |-> [record EXCEPT !.checkin = ci[1], !.checkout = co[1]]]

\* the record with the request's checkin and checkout applied, or the
\* validation error that ends the request
ApplyTimes(record, req) ==
    LET ci == IF ~req.has_checkin THEN <<record.checkin>>
              ELSE IF NewTime(req.checkin) = <<>> THEN <<NoText>>
              ELSE FullDatetimeText(NewTime(req.checkin))
        co == IF ~req.has_checkout THEN <<record.checkout>>
              ELSE IF NewTime(req.checkout) = <<>> THEN <<NoText>>
              ELSE FullDatetimeText(NewTime(req.checkout))
    IN  IF ci = <<>> THEN [resp |-> "invalid_checkin", rec |-> record]
        ELSE IF co = <<>> THEN [resp |-> "invalid_checkout", rec |-> record]
        ELSE [resp |-> "ok",
              rec |-> [record EXCEPT !.checkin = ci[1], !.checkout = co[1]]]

\* the records after the update: target_record changed in place, or, when no
\* record was found, records.append(new_record)
StoreTarget(records, index, rec) ==
    IF index # 0 THEN [records EXCEPT ![index] = rec] ELSE Append(records, rec)

\* sort, recalculate the delays of the id, save
SortRecalculateSave(records, fid, how) ==
    Outcome(RecalculateDelays(SortRecords(records, TRUE), fid), fid, "ok", how)

api_update_attendance(records, req) ==
    LET faculty_id == Upper(Strip(req.faculty_id)) IN
    IF faculty_id = <<>> THEN Outcome(records, faculty_id, "required", "none")
    ELSE LET t == ResolveTarget(records, faculty_id, req)
             a == ApplyTimes(IF t.index # 0 THEN records[t.index]
                             ELSE PlaceholderRecord(faculty_id), req)
         IN  IF a.resp # "ok" THEN Outcome(records, faculty_id, a.resp, t.how)
             ELSE [ SortRecalculateSave(StoreTarget(records, t.index, a.rec),
                                        faculty_id, t.how)
                    EXCEPT !.matches = t.matches ]

(***************************************************************************)
(* api_delete_attendance                                                   *)
(***************************************************************************)
api_delete_attendance(records, req) ==
    LET faculty_id == Upper(Strip(req.faculty_id))
        kept == RecordsNotOf(records, faculty_id)
    IN  IF faculty_id = <<>> THEN Outcome(records, faculty_id, "required", "none")
        ELSE IF Len(records) - Len(kept) = 0
        THEN Outcome(records, faculty_id, "no_records", "none")
        ELSE Outcome(SortRecords(WithPlaceholder(kept, faculty_id), FALSE),
                     faculty_id, "ok", "all")

(***************************************************************************)
(* api_add_attendance                                                      *)
(***************************************************************************)
\* Variant of api_add_attendance that writes the new times over a record of
\* the id that has neither checkin nor checkout, instead of appending
\* (sensitivity of C28_AddKeepsPlaceholder).
api_add_attendance_OverPlaceholder(records, req) ==
    LET faculty_id == Upper(Strip(req.faculty_id))
        ci == IF Strip(req.checkin) = <<>> THEN <<NoText>> ELSE FullDatetimeText(Strip(req.checkin))
        co == IF Strip(req.checkout) = <<>> THEN <<NoText>> ELSE FullDatetimeText(Strip(req.checkout))
        empty == FirstOf({i \in IndexesOf(records, faculty_id) :
                             records[i].checkin = NoText /\ records[i].checkout = NoText})
    IN  IF faculty_id = <<>> THEN Outcome(records, faculty_id, "required", "none")
        ELSE IF ci = <<>> THEN Outcome(records, faculty_id, "invalid_checkin", "none")
        ELSE IF co = <<>> THEN Outcome(records, faculty_id, "invalid_checkout", "none")
        ELSE SortRecalculateSave(
                 IF empty # 0
                 THEN [records EXCEPT ![empty] = [@ EXCEPT !.checkin = ci[1], !.checkout = co[1]]]
                 ELSE Append(records, [PlaceholderRecord(faculty_id) EXCEPT
                                           !.checkin = ci[1], !.checkout = co[1]]),
                 faculty_id, "new")

api_add_attendance(records, req) ==
    LET faculty_id == Upper(Strip(req.faculty_id))
        checkin_time == Strip(req.checkin)
        checkout_time == Strip(req.checkout)
        ci == IF checkin_time = <<>> THEN <<NoText>> ELSE FullDatetimeText(checkin_time)
        co == IF checkout_time = <<>> THEN <<NoText>> ELSE FullDatetimeText(checkout_time)
    IN  IF faculty_id = <<>> THEN Outcome(records, faculty_id, "required", "none")
        ELSE IF ci = <<>> THEN Outcome(records, faculty_id, "invalid_checkin", "none")
        ELSE IF co = <<>> THEN Outcome(records, faculty_id, "invalid_checkout", "none")
        ELSE SortRecalculateSave(
                 Append(records, [PlaceholderRecord(faculty_id) EXCEPT
                                      !.checkin = ci[1], !.checkout = co[1]]),
                 faculty_id, "new")

(***************************************************************************)
(* api_delete_specific_attendance                                          *)
(***************************************************************************)
\* the positions of the records of fid, as the list faculty_records
RECURSIVE IndexList(_, _, _)
IndexList(records, fid, i) ==
    IF i > Len(records) THEN <<>>
    ELSE (IF SameId(records[i], fid) THEN <<i>> ELSE <<>>) \o IndexList(records, fid, i + 1)

\* records.pop(i)
Pop(records, i) == SubSeq(records, 1, i - 1) \o SubSeq(records, i + 1, Len(records))

\* faculty_records[record_index] with Python's list indexing: a negative
\* index counts from the end; 0 stands for IndexError
PyIndex(lst, k) ==
    IF k >= 0 /\ k < Len(lst) THEN lst[k + 1]
    ELSE IF k < 0 /\ -k <= Len(lst) THEN lst[Len(lst) + k + 1]
    ELSE 0

api_delete_specific_attendance(records, req) ==
    LET faculty_id == Upper(Strip(req.faculty_id))
        faculty_records == IndexList(records, Upper(faculty_id), 1)
        actual_index == PyIndex(faculty_records, req.record_index)
    IN  IF faculty_id = <<>> THEN Outcome(records, faculty_id, "required", "none")
        ELSE IF faculty_records = <<>> THEN Outcome(records, faculty_id, "no_records", "none")
        ELSE IF req.record_index >= Len(faculty_records)
        THEN Outcome(records, faculty_id, "invalid_index", "none")
        ELSE IF actual_index = 0 THEN Outcome(records, faculty_id, "failed", "none")
        ELSE LET popped == Pop(records, actual_index)
                 remaining == RecordsOf(popped, Upper(faculty_id))
             IN  Outcome(SortRecords(IF remaining = <<>>
                                     THEN WithPlaceholder(popped, faculty_id)
                                     ELSE popped, FALSE),
                         faculty_id, "ok", "index")

(***************************************************************************)
(* The handlers from the request to the records: the DayFile is looked up  *)
(* and read before the records are worked on.                              *)
(***************************************************************************)
\* the response that ends update, delete-all and delete-one before the
\* records are touched: the file is not there, or json.load gave no list
ReadFailure(sh) ==
    IF sh = "absent" THEN "not_found"
    ELSE IF sh # "list" THEN "invalid_format"
    ELSE "ok"

\* a handler that needs the DayFile to be a list; the faculty id is checked
\* before the file is looked up
NeedsList(sh, records, out) ==
    IF out.resp = "required" \/ ReadFailure(sh) = "ok" THEN out
    ELSE Outcome(records, out.id, ReadFailure(sh), "none")

UpdateDayFile(sh, records, req) == NeedsList(sh, records, api_update_attendance(records, req))

DeleteDayFile(sh, records, req) == NeedsList(sh, records, api_delete_attendance(records, req))

DeleteOneDayFile(sh, records, req) ==
    NeedsList(sh, records, api_delete_specific_attendance(records, req))

\* add starts from records = [] when the file is not there or holds no list
AddDayFile(sh, records, req) ==
    api_add_attendance(IF sh = "list" THEN records ELSE <<>>, req)

(***************************************************************************)
(* annotate_file_with_delay                                                *)
(***************************************************************************)
\* row[k] = v
SetField(row, k, v) == [x \in DOMAIN row \cup {k} |-> IF x = k THEN v ELSE row[x]]

\* Variant of NormalizeRow that writes the checkout '' to every row
\* (sensitivity of C25_AnnotationFrame).
NormalizeRow_ClearCheckout(row) ==
    LET r1 == IF "checkin" \notin DOMAIN row /\ "timestamp" \in DOMAIN row
              THEN SetField(row, "checkin", row.timestamp)
              ELSE row
    IN  SetField(r1, "checkout", NoText)

\* "normalize possible 'timestamp' only schema": a row without checkin takes
\* its timestamp for checkin, a row without checkout gets the checkout ''
NormalizeRow(row) ==
    LET r1 == IF "checkin" \notin DOMAIN row /\ "timestamp" \in DOMAIN row
              THEN SetField(row, "checkin", row.timestamp)
              ELSE row
    IN  IF "checkout" \notin DOMAIN r1 THEN SetField(r1, "checkout", NoText) ELSE r1

\* Variant of GroupRows that leaves out the rows already carrying a delay
\* (sensitivity of C12_AnnotateIdempotent).
RECURSIVE GroupRows_Unannotated(_, _)
GroupRows_Unannotated(rows, sid) ==
    IF rows = <<>> THEN <<>>
    ELSE (IF SameId(Head(rows), sid) /\ "delay" \notin DOMAIN Head(rows)
          THEN <<Head(rows)>> ELSE <<>>) \o GroupRows_Unannotated(Tail(rows), sid)

\* by_id[sid]: the rows grouped under the stripped, upper-cased id
GroupRows(rows, sid) == RecordsOf(rows, sid)

\* the rows of a date file normalized and annotated: every row gets the delay
\* computed from the rows of its group
AnnotateRows(data, date_obj) ==
    LET rows == [i \in 1..Len(data) |-> NormalizeRow(data[i])] IN
    [i \in 1..Len(rows) |->
        LET sid == Upper(Strip(rows[i].student_id)) IN
        SetField(rows[i], "delay",
                 compute_daily_delay_for_records(GroupRows(rows, sid), date_obj,
                                                 determine_staff_type(sid)))]

\* annotate_file_with_delay on the list stored for the date of the run
annotate_file_with_delay(data) == AnnotateRows(data, date)

(***************************************************************************)
(* Spec: the four mutation handlers run, in any order, on one DayFile.     *)
(***************************************************************************)
FileDate == 1      \* the DayFile of the mutation runs is a Tuesday

\* the events the external writer may have left in the DayFile: three of
\* staff T1 (one under the spelling "t1 "), one of staff W3
WrittenEvents ==
    { Event(ID_T1, "Asha", IsoText(FileDate, HM(9, 10), 0), IsoText(FileDate, HM(16, 45), 0), ""),
      Event(ID_T1, "Asha", IsoText(FileDate, HM(9, 40), 0), NoText, ""),
      Event(ID_t1, "Asha", IsoText(FileDate, HM(9, 40), 500), IsoText(FileDate, HM(16, 0), 0), ""),
      Event(ID_W3, "Ravi", IsoText(FileDate, HM(9, 10), 0), IsoText(FileDate, HM(16, 0), 0), "") }

\* the DayFiles of at most two written events, in any order
WrittenFiles ==
    {<<>>} \cup {<<a>> : a \in WrittenEvents}
           \cup {<<a, b>> : a \in WrittenEvents, b \in WrittenEvents}

\* the faculty_id of the requests: staff T1, as the text "t1 "
RequestIds == {ID_t1}

UpdateRequest(f, hci, ci, hco, co, cci, cco) ==
    [faculty_id |-> f, has_checkin |-> hci, checkin |-> ci,
     has_checkout |-> hco, checkout |-> co,
     current_checkin |-> cci, current_checkout |-> cco]

\* the bodies of the update requests: a new checkin (cleared, or 9:40:00),
\* with or without a new checkout, for each claimed current checkin; a new
\* checkout alone for each claimed current checkout / checkin; a new checkin
\* and a new checkout with both current values claimed; no field at all; and
\* requests with a time that is no HH:MM:SS
UpdateRequests ==
    { UpdateRequest(f, TRUE, ci, hco, T_1600, cci, <<>>) :
         f \in RequestIds, ci \in {<<>>, T_940}, hco \in BOOLEAN,
         cci \in {<<>>, T_0910, T_0940} }
    \cup
    { UpdateRequest(f, FALSE, <<>>, TRUE, co, cci, cco) :
         f \in RequestIds, co \in {<<>>, T_1600},
         cci \in {<<>>, T_0940}, cco \in {<<>>, T_1600} }
    \cup
    { UpdateRequest(f, TRUE, T_940, TRUE, T_1645, T_0940, T_1600) : f \in RequestIds }
    \cup
    { UpdateRequest(f, FALSE, <<>>, FALSE, <<>>, <<>>, <<>>) : f \in RequestIds }
    \cup
    { UpdateRequest(f, TRUE, T_2500, TRUE, T_1600, T_0940, <<>>) : f \in RequestIds }
    \cup
    { UpdateRequest(f, TRUE, T_940, TRUE, T_1661, T_0940, <<>>) : f \in RequestIds }
    \cup
    { UpdateRequest(f, FALSE, <<>>, TRUE, T_1661, <<>>, <<>>) : f \in RequestIds }

AddRequests ==
    { [faculty_id |-> f, checkin |-> ci, checkout |-> co] :
         f \in RequestIds, ci \in {<<>>, T_940}, co \in {<<>>, T_1600} }
    \cup
    { [faculty_id |-> f, checkin |-> T_2500, checkout |-> T_1600] : f \in RequestIds }
    \cup
    { [faculty_id |-> f, checkin |-> T_940, checkout |-> T_1661] : f \in RequestIds }

DeleteRequests == { [faculty_id |-> f] : f \in RequestIds }

DeleteOneRequests ==
    { [faculty_id |-> f, record_index |-> k] : f \in RequestIds, k \in (-2)..MaxEvents }

Init ==
    /\ faculty = FacultyTable
    /\ date = FileDate
    /\ \/ \E w \in WrittenFiles : file = annotate_file_with_delay(w) /\ shape = "list"
       \/ file = <<>> /\ shape \in {"absent", "object"}
    /\ last = NoRequest
    /\ query = <<>>
    /\ staff_type = "none"
    /\ window = <<>>
    /\ result = "none"
    /\ inflight = NoInflight
    /\ store = NoStore
    /\ report = NoReport
    /\ source = NoSource
    /\ tracking = NoTracking

\* the DayFile and the history after a handler ended with outcome `out`
Handled(op, out) ==
    /\ Len(out.file) <= MaxEvents
    /\ file' = out.file
    /\ shape' = IF out.resp = "ok" THEN "list" ELSE shape
    /\ last' = [op |-> op, id |-> out.id, resp |-> out.resp, how |-> out.how,
                matches |-> out.matches]
    /\ UNCHANGED <<source, tracking, faculty, date, query, staff_type, window, result, inflight, store, report>>

Update ==
    \E req \in UpdateRequests :
        \E out \in {UpdateDayFile(shape, file, req)} : Handled("update", out)

Add ==
    \E req \in AddRequests :
        \E out \in {AddDayFile(shape, file, req)} : Handled("add", out)

Delete ==
    \E req \in DeleteRequests :
        \E out \in {DeleteDayFile(shape, file, req)} : Handled("delete", out)

DeleteOne ==
    \E req \in DeleteOneRequests :
        \E out \in {DeleteOneDayFile(shape, file, req)} : Handled("delete_one", out)

Next == Update \/ Add \/ Delete \/ DeleteOne

Spec == Init /\ [][Next]_vars

(***************************************************************************)
(* SpecDelay: the threshold policy and the delay calculator applied to     *)
(* record lists of one staff member, for every date and staff type.        *)
(***************************************************************************)
MaxDay == 6        \* the DayFile dates are the days 0..MaxDay

\* the (checkin, checkout) texts of the records given to the calculator
CalcRecords(d) ==
    { Event(ID_T1, "Asha", IsoText(d, HM(9, 10), 0), IsoText(d, HM(16, 45), 0), ""),
      Event(ID_T1, "Asha", IsoText(d, HM(9, 40), 0), IsoText(d, HM(16, 30), 0), ""),
      Event(ID_T1, "Asha", IsoText(d, HM(9, 40), 0), NoText, ""),
      Event(ID_T1, "Asha", NoText, IsoText(d, HM(16, 0), 0), ""),
      Event(ID_T1, "Asha", JunkText, NoText, ""),
      Event(ID_T1, "Asha", IsoText(d, HM(9, 25), 500), IsoText(d, HM(12, 59) + 59, 500), ""),
      Event(ID_T1, "Asha", IsoText(d, HM(8, 20), 0), IsoText(d + 1, HM(0, 10), 0), "") }

CalcInit ==
    /\ faculty = FacultyTable
    /\ date \in 0..MaxDay
    /\ staff_type \in StaffTypes
    /\ file = <<>>
    /\ last = NoRequest
    /\ query = <<>>
    /\ window = <<>>
    /\ result = "none"
    /\ inflight = NoInflight
    /\ store = NoStore
    /\ report = NoReport
    /\ source = NoSource
    /\ tracking = NoTracking
    /\ shape = "list"

\* one more record for the calculator's input
CalcAppend ==
    /\ Len(file) < MaxRecs
    /\ window = <<>>
    /\ result = "none"
    /\ \E r \in CalcRecords(date) : file' = Append(file, r)
    /\ UNCHANGED <<source, tracking, faculty, date, last, query, staff_type, window, result, inflight, store, report, shape>>

CalcThresholds ==
    /\ window' = get_thresholds_for(date, staff_type)
    /\ UNCHANGED <<source, tracking, faculty, date, file, last, query, staff_type, result, inflight, store, report, shape>>

CalcCompute ==
    /\ result' = compute_daily_delay_for_records(file, date, staff_type)
    /\ UNCHANGED <<source, tracking, faculty, date, file, last, query, staff_type, window, inflight, store, report, shape>>

CalcNext == CalcAppend \/ CalcThresholds \/ CalcCompute

SpecDelay == CalcInit /\ [][CalcNext]_vars

(***************************************************************************)
(* SpecClassify: the classifier applied to a queried id under profile      *)
(* tables of one entry.                                                    *)
(***************************************************************************)
KEY_t1 == <<116, 49>>    \* "t1", a key stored in lower case

ProfileKeys == {ID_T1, KEY_t1}

CategoryTexts ==
    {CAT_TEACHING_FACULTY, CAT_NON_TEACHING_FACULTY, CAT_TEACHING_STAFF,
     CAT_NON_TEACHING_UPPER, CAT_GUEST, <<>>}

DepartmentTexts ==
    {DEPT_COMPUTER_APPLICATIONS, DEPT_ADMIN_OFFICE, DEPT_SUPPORT_SERVICES,
     DEPT_COMMERCE, DEPT_ADMIN_SUPPORT, <<>>}

QueryIds == {ID_T1, ID_t1, ID_X9}

ClassifyInit ==
    /\ \E k \in ProfileKeys, c \in CategoryTexts, d \in DepartmentTexts :
           faculty = [x \in {k} |-> [name |-> "Asha", category |-> c, department |-> d]]
    /\ query \in QueryIds
    /\ staff_type = "none"
    /\ date = 0
    /\ file = <<>>
    /\ last = NoRequest
    /\ window = <<>>
    /\ result = "none"
    /\ inflight = NoInflight
    /\ store = NoStore
    /\ report = NoReport
    /\ source = NoSource
    /\ tracking = NoTracking
    /\ shape = "list"

Classify ==
    /\ staff_type' = determine_staff_type(query)
    /\ UNCHANGED <<source, tracking, faculty, date, file, last, query, window, result, inflight, store, report, shape>>

ClassifyAsk ==
    /\ \E q \in QueryIds : query' = q
    /\ staff_type' = "none"
    /\ UNCHANGED <<source, tracking, faculty, date, file, last, window, result, inflight, store, report, shape>>

ClassifyNext == Classify \/ ClassifyAsk

SpecClassify == ClassifyInit /\ [][ClassifyNext]_vars

(***************************************************************************)
(* Claims C1 - C5: the pure functions.                                     *)
(***************************************************************************)
\* the table of spec section 4.2: <<deadline, checkout-after>>
ClaimedWindow(st, d) ==
    LET sat == (d % 7 = 5) IN
    CASE st = "teaching" -> <<33900, IF sat THEN 46800 ELSE 59400>>
      [] st = "admin"    -> <<33300, IF sat THEN 48600 ELSE 62100>>
      [] st = "support"  -> <<30600, IF sat THEN 48600 ELSE 62100>>

UsableStamps(field) ==
    { [day |-> file[i][field].day, sec |-> file[i][field].sec, ms |-> file[i][field].ms] :
        i \in {j \in 1..Len(file) : file[j][field].kind = "iso"} }

\* milliseconds by which the earliest usable checkin of `file` is after the
\* claimed deadline on the checkin's date (0 when it is not)
ClaimedLateMs ==
    LET ins == UsableStamps("checkin")
        e == CHOOSE c \in ins : \A x \in ins : Stamp(c) <= Stamp(x)
        dl == (e.day * 86400 + ClaimedWindow(staff_type, date)[1]) * 1000
    IN  IF Stamp(e) > dl THEN Stamp(e) - dl ELSE 0

\* whole seconds, rounded up, by which the latest usable checkout of `file` is
\* before the claimed checkout-after time on the checkout's date
ClaimedEarlySeconds ==
    LET outs == UsableStamps("checkout")
        o == CHOOSE c \in outs : \A x \in outs : Stamp(c) >= Stamp(x)
        ca == (o.day * 86400 + ClaimedWindow(staff_type, date)[2]) * 1000
        gap == IF ca > Stamp(o) THEN ca - Stamp(o) ELSE 0
    IN  CHOOSE n \in (gap \div 1000)..(gap \div 1000 + 1) :
            n * 1000 >= gap /\ (n - 1) * 1000 < gap

\* the whole numbers of seconds that render a lateness of x milliseconds
WholeSecondsOf(x) ==
    IF x % 1000 = 0 THEN {x \div 1000} ELSE {x \div 1000, x \div 1000 + 1}

\* C1: with a usable checkin and a usable checkout among the records, the
\* calculator returns the HH:MM:SS rendering of (earliest checkin - deadline,
\* not below 0) + ceil(checkout-after - latest checkout, not below 0), earliest
\* and latest taken over all the records; Teaching on a weekday with
\* 09:10 / 16:45 gives 00:00:00 and with 09:40 / 16:30 gives 00:15:00.
C1_DeadlineDelay ==
    (result # "none" /\ UsableStamps("checkin") # {} /\ UsableStamps("checkout") # {})
    => /\ \E n \in WholeSecondsOf(ClaimedLateMs) :
              result = _seconds_to_hhmmss(n + ClaimedEarlySeconds)
       /\ (staff_type = "teaching" /\ date % 7 \in 0..4 /\ Len(file) = 1
           /\ file[1].checkin = IsoText(date, HM(9, 10), 0)
           /\ file[1].checkout = IsoText(date, HM(16, 45), 0)) => result = "00:00:00"
       /\ (staff_type = "teaching" /\ date % 7 \in 0..4 /\ Len(file) = 1
           /\ file[1].checkin = IsoText(date, HM(9, 40), 0)
           /\ file[1].checkout = IsoText(date, HM(16, 30), 0)) => result = "00:15:00"

\* C1 witness: the earliest checkin and the latest checkout sit in different
\* records (09:40 without checkout, 16:00 without checkin) and both count.
C1_Witness ==
    /\ staff_type = "teaching" /\ date = 1
    /\ file = << Event(ID_T1, "Asha", IsoText(1, HM(9, 40), 0), NoText, ""),
                 Event(ID_T1, "Asha", NoText, IsoText(1, HM(16, 0), 0), "") >>
    /\ result = "00:45:00"

\* C2: with no usable checkin among the records the delay is 00:00:00,
\* whatever checkouts are present.
C2_NoCheckinZeroDelay ==
    (result # "none" /\ UsableStamps("checkin") = {}) => result = "00:00:00"

\* C2 witness: only a checkout at 16:00, before every checkout-after time.
C2_Witness ==
    /\ result = "00:00:00"
    /\ UsableStamps("checkin") = {}
    /\ \E i \in 1..Len(file) : file[i].checkout = IsoText(date, HM(16, 0), 0)

C4_ThresholdTable ==
    window # <<>>
    => /\ window = ClaimedWindow(staff_type, date)
       /\ window[1] < window[2]
       /\ \A d \in 0..MaxDay :
              ((d % 7 = 5) = (date % 7 = 5)) => get_thresholds_for(d, staff_type) = window

\* C4 witness: the Saturday window of Support.
C4_Witness == window = <<30600, 48600>> /\ date % 7 = 5 /\ staff_type = "support"

TXT_teaching == <<116, 101, 97, 99, 104, 105, 110, 103>>   \* "teaching"

\* the profile stored for the queried id (under its trimmed upper-case key)
QueriedKey == Upper(Strip(query))

\* C5: category with "teaching" and without "non-teaching" -> Teaching;
\* with "non-teaching" -> Support when the department has "computer
\* applications" or "support", else Administrative; unknown id or
\* unrecognized / empty category -> Teaching.
C5_ResolutionOrder ==
    staff_type # "none"
    => IF QueriedKey \notin DOMAIN faculty THEN staff_type = "teaching"
       ELSE LET cat == Lower(faculty[QueriedKey].category)
                dep == Lower(faculty[QueriedKey].department)
            IN  IF Contains(cat, PAT_non_teaching)
                THEN IF Contains(dep, PAT_computer_applications) \/ Contains(dep, PAT_support)
                     THEN staff_type = "support"
                     ELSE staff_type = "admin"
                ELSE staff_type = "teaching"

\* C5 witness: a non-teaching profile whose department matches both the
\* support and the administrative tests classifies as Support.
C5_Witness ==
    /\ staff_type = "support"
    /\ QueriedKey \in DOMAIN faculty
    /\ faculty[QueriedKey].department = DEPT_ADMIN_SUPPORT

(***************************************************************************)
(* Claims C6 - C10: the mutation handlers.                                 *)
(***************************************************************************)
Mutations == {"update", "add", "delete", "delete_one"}

\* the normalized faculty id of a request
RequestedId(req) == Upper(Strip(req.faculty_id))

\* the delay the calculator gives for the events of staff fid in records
FreshDelay(records, fid) ==
    compute_daily_delay_for_records(RecordsOf(records, fid), date, determine_staff_type(fid))

\* C6: after a successful update, add, delete-all or delete-one, every
\* remaining event of the mutated staff id carries the delay the calculator
\* gives for that staff id's remaining events (a placeholder a delete has just
\* inserted is not a remaining event).
C6_DelayRecomputed ==
    (last.op \in Mutations /\ last.resp = "ok")
    => \A i \in IndexesOf(file, last.id) :
           \/ last.op \in {"delete", "delete_one"} /\ file[i] = PlaceholderRecord(last.id)
           \/ file[i].delay = FreshDelay(file, last.id)

\* C7: all stored events of one staff id (trimmed, case-insensitive) carry
\* the same delay.
C7_SameDelayPerStaff ==
    \A i \in 1..Len(file), j \in 1..Len(file) :
        Upper(Strip(file[i].student_id)) = Upper(Strip(file[j].student_id))
        => file[i].delay = file[j].delay

\* C7 witness: an update has been applied to a staff member whose events are
\* stored under two spellings of the id.
C7_Witness ==
    /\ last.op = "update" /\ last.resp = "ok"
    /\ \E i \in 1..Len(file), j \in 1..Len(file) :
           /\ file[i].student_id = ID_t1 /\ file[j].student_id = ID_T1
           /\ file[i].delay # "00:00:00"

\* the events of staff fid in records are exactly one placeholder
OnlyPlaceholder(records, fid) ==
    /\ Len(RecordsOf(records, fid)) = 1
    /\ RecordsOf(records, fid)[1].checkin = NoText
    /\ RecordsOf(records, fid)[1].checkout = NoText
    /\ RecordsOf(records, fid)[1].delay = "N/A"

\* C8: delete-all for a staff id that has events, and delete-one of the only
\* event of a staff id, leave exactly one event of that id: a placeholder
\* with empty checkin, empty checkout and delay N/A.
C8_PlaceholderAfterLastDelete ==
    /\ \A req \in DeleteRequests :
           IndexesOf(file, RequestedId(req)) # {}
           => LET out == api_delete_attendance(file, req) IN
              out.resp = "ok" /\ OnlyPlaceholder(out.file, RequestedId(req))
    /\ \A req \in DeleteOneRequests :
           LET out == api_delete_specific_attendance(file, req) IN
           (Cardinality(IndexesOf(file, RequestedId(req))) = 1 /\ out.resp = "ok")
           => OnlyPlaceholder(out.file, RequestedId(req))

\* C8 witness: a delete-one has left its staff id with a placeholder only.
C8_Witness ==
    /\ last.op = "delete_one" /\ last.resp = "ok"
    /\ OnlyPlaceholder(file, last.id)
    /\ Len(file) = 2

\* an event without its delay
Core(e) == <<e.student_id, e.name, e.checkin, e.checkout>>

\* the two lists hold the same events, delays and order aside
SameEvents(r1, r2) ==
    /\ Len(r1) = Len(r2)
    /\ \A i \in 1..Len(r1) :
           Cardinality({j \in 1..Len(r1) : Core(r1[j]) = Core(r1[i])})
               = Cardinality({j \in 1..Len(r2) : Core(r2[j]) = Core(r1[i])})

\* C9: a successful update that carries a checkin changes the first event, in
\* file order, of the staff id whose checkin re-formatted to HH:MM:SS equals
\* the claimed current checkin, and no other event's checkin or checkout.
C9_CheckinFirstMatch ==
    \A req \in UpdateRequests :
        LET fid == RequestedId(req)
            m == {i \in 1..Len(file) :
                     /\ Upper(Strip(file[i].student_id)) = fid
                     /\ TimeOnly(file[i].checkin) = req.current_checkin}
            out == api_update_attendance(file, req)
        IN  (req.has_checkin /\ m # {} /\ out.resp = "ok")
            => LET k == CHOOSE i \in m : \A j \in m : i <= j IN
               SameEvents(out.file, [file EXCEPT ![k] = ApplyTimes(file[k], req).rec])

\* C9 witness: an update was resolved by value among two or more events with
\* the claimed checkin.
C9_Witness ==
    /\ last.op = "update" /\ last.resp = "ok"
    /\ last.how = "value" /\ last.matches >= 2

\* the text, once stripped, is not empty and is no HH:MM:SS time
NotATime(text) == Strip(text) # <<>> /\ strptime_HMS(Strip(text)) = <<>>

\* C10: an update or add request with a checkin or checkout that is no
\* HH:MM:SS time is answered with a validation error and leaves the DayFile
\* as it was, also when the other time of the request is valid.
C10_InvalidTimeRejected ==
    /\ \A req \in UpdateRequests :
           LET out == api_update_attendance(file, req) IN
           ((req.has_checkin /\ NotATime(req.checkin))
               \/ (req.has_checkout /\ NotATime(req.checkout)))
           => out.resp \in {"invalid_checkin", "invalid_checkout"} /\ out.file = file
    /\ \A req \in AddRequests :
           LET out == api_add_attendance(file, req) IN
           (NotATime(req.checkin) \/ NotATime(req.checkout))
           => out.resp \in {"invalid_checkin", "invalid_checkout"} /\ out.file = file

\* C10 witness: an update with a valid checkin and an invalid checkout was
\* rejected on a DayFile that holds events of the staff id.
C10_Witness ==
    /\ last.op = "update" /\ last.resp = "invalid_checkout"
    /\ IndexesOf(file, last.id) # {}

(***************************************************************************)
(* SpecRace: the handlers as the request threads of the server run them,   *)
(* a read of the DayFile and a later write of it, next to the external     *)
(* writer of the same file.  No lock is taken between the two.             *)
(***************************************************************************)
\* the request threads of the server (app.run serves each request in its own
\* thread)
Threads == {"r1", "r2"}

Idle == [op |-> "idle", req |-> <<>>, snap |-> <<>>]

\* the requests of the threads: an add and a delete-all for staff T1
RaceRequests ==
    { [op |-> "add", req |-> [faculty_id |-> ID_t1, checkin |-> T_940, checkout |-> T_1600]],
      [op |-> "delete", req |-> [faculty_id |-> ID_t1]] }

\* the event the external writer adds to the DayFile
ExternalEvents ==
    { Event(ID_W3, "Ravi", IsoText(FileDate, HM(9, 10), 0), IsoText(FileDate, HM(16, 0), 0), "") }

MaxRaceEvents == 2     \* longest DayFile of the interleaved runs

\* the handler of a request run on the records it has read
RunHandler(op, records, req) ==
    IF op = "add" THEN api_add_attendance(records, req)
    ELSE IF op = "update" THEN api_update_attendance(records, req)
    ELSE IF op = "delete" THEN api_delete_attendance(records, req)
    ELSE api_delete_specific_attendance(records, req)

RaceInit ==
    /\ faculty = FacultyTable
    /\ date = FileDate
    /\ file = <<>>
    /\ last = NoRequest
    /\ query = <<>>
    /\ staff_type = "none"
    /\ window = <<>>
    /\ result = "none"
    /\ inflight = [p \in Threads |-> Idle]
    /\ store = NoStore
    /\ report = NoReport
    /\ source = NoSource
    /\ tracking = NoTracking
    /\ shape = "list"

\* "Read current data": json.load of the DayFile into the thread's records
ReadDayFile(p) ==
    /\ inflight[p].op = "idle"
    /\ \E r \in RaceRequests :
           inflight' = [inflight EXCEPT ![p] = [op |-> r.op, req |-> r.req, snap |-> file]]
    /\ UNCHANGED <<source, tracking, faculty, date, file, last, query, staff_type, window, result, store, report, shape>>

\* the rest of the handler: the change of the records read, and, unless the
\* request is rejected, json.dump of them over the DayFile
WriteDayFile(p) ==
    /\ inflight[p].op # "idle"
    /\ \E out \in {RunHandler(inflight[p].op, inflight[p].snap, inflight[p].req)} :
           /\ Len(out.file) <= MaxRaceEvents
           /\ file' = IF out.resp = "ok" THEN out.file ELSE file
           /\ last' = [op |-> inflight[p].op, id |-> out.id, resp |-> out.resp,
                       how |-> out.how, matches |-> out.matches]
    /\ inflight' = [inflight EXCEPT ![p] = Idle]
    /\ UNCHANGED <<source, tracking, faculty, date, query, staff_type, window, result, store, report, shape>>

\* the uncontrolled writer adds an event to the DayFile
ExternalWrite ==
    /\ Len(file) < MaxRaceEvents
    /\ \E e \in ExternalEvents : file' = Append(file, e)
    /\ UNCHANGED <<source, tracking, faculty, date, last, query, staff_type, window, result, inflight, store, report, shape>>

Reads == \E p \in Threads : ReadDayFile(p)

Writes == \E p \in Threads : WriteDayFile(p)

RaceNext == Reads \/ Writes \/ ExternalWrite

SpecRace == RaceInit /\ [][RaceNext]_vars

(***************************************************************************)
(* SpecFiles: the attendance directory as a set of files of any content,   *)
(* changed by the external writer, and the operations that work on whole   *)
(* files: annotation of one file and of all files, the two readers and     *)
(* the monthly delay report.                                               *)
(***************************************************************************)
MaxMonthDay == 2          \* the month of the runs has the days 1..MaxMonthDay
MaxDelaySeconds == 7200   \* longest daily delay text the report converts

\* file names: YYYY-MM-DD.json of a day, and a name whose stem is no date
DayName(d) == [is_date |-> TRUE, day |-> d]

OtherName == [is_date |-> FALSE, day |-> 0]

FileNames == {DayName(d) : d \in 1..MaxMonthDay} \cup {OtherName}

\* file contents: text json.load rejects, a JSON object with a member, a list
Unparsable == [shape |-> "unparsable", rows |-> <<>>]

ObjectContent == [shape |-> "object", rows |-> <<>>]

ListContent(rows) == [shape |-> "list", rows |-> rows]

\* a list element that is no JSON object (a number)
ScalarRow == [scalar |-> 7]

IsDict(row) == "scalar" \notin DOMAIN row

\* the rows the external writer leaves in the file of day d: a legacy row of
\* T1 with a timestamp only, a row of "t1 " already carrying a stale delay, a
\* row of W3 without a checkout key
LegacyRow(d) == [student_id |-> ID_T1, name |-> "Asha", timestamp |-> IsoText(d, HM(9, 40), 0)]

StaleRow(d) ==
    Event(ID_t1, "Asha", IsoText(d, HM(9, 30), 500), IsoText(d, HM(16, 45), 0), "N/A")

NoCheckoutRow(d) == [student_id |-> ID_W3, name |-> "Ravi", checkin |-> IsoText(d, HM(8, 50), 0)]

WrittenContents(d) ==
    { Unparsable, ObjectContent, ListContent(<<>>), ListContent(<<ScalarRow>>),
      ListContent(<<LegacyRow(d)>>),
      ListContent(<<StaleRow(d), NoCheckoutRow(d), LegacyRow(d)>>) }

\* annotate_file_with_delay on one file: the content the file has afterwards.
\* A name that is no date and a content that is no list return early; an
\* exception (json.load of bad text, a row that is no dict) is swallowed
\* before the file is written.
AnnotateFile(name, content) ==
    IF ~name.is_date THEN content
    ELSE IF content.shape # "list" THEN content
    ELSE IF \E i \in 1..Len(content.rows) : ~IsDict(content.rows[i]) THEN content
    ELSE ListContent(AnnotateRows(content.rows, name.day))

\* an exception leaves annotate_file_with_delay: both try blocks end in
\* `except Exception`, so none does
AnnotateRaises(name, content) == FALSE

\* annotate_all_existing_files: the results dict
annotate_all_existing_files(dir) ==
    [annotated |-> {n \in DOMAIN dir : ~AnnotateRaises(n, dir[n])},
     errors |-> {n \in DOMAIN dir : AnnotateRaises(n, dir[n])}]

\* Variant of read_attendance_for_date that returns whatever json.load gave
\* (sensitivity of C17_ReadsFailClosed).
read_attendance_for_date_AnyShape(dir, d) ==
    IF DayName(d) \notin DOMAIN dir THEN [raised |-> FALSE, rows |-> <<>>]
    ELSE IF dir[DayName(d)].shape = "unparsable" THEN [raised |-> FALSE, rows |-> <<>>]
    ELSE [raised |-> FALSE,
          rows |-> IF dir[DayName(d)].shape = "list" THEN dir[DayName(d)].rows
                   ELSE <<ScalarRow>>]

\* read_attendance_for_date: the list returned (raised: an exception escapes)
read_attendance_for_date(dir, d) ==
    IF DayName(d) \notin DOMAIN dir THEN [raised |-> FALSE, rows |-> <<>>]
    ELSE IF dir[DayName(d)].shape = "unparsable" THEN [raised |-> FALSE, rows |-> <<>>]
    ELSE IF dir[DayName(d)].shape = "list"
    THEN [raised |-> FALSE, rows |-> dir[DayName(d)].rows]
    ELSE [raised |-> FALSE, rows |-> <<>>]

get_attendance_from_source(dir, d) ==
    IF DayName(d) \notin DOMAIN dir THEN [raised |-> FALSE, rows |-> <<>>]
    ELSE IF dir[DayName(d)].shape = "unparsable" THEN [raised |-> FALSE, rows |-> <<>>]
    ELSE IF dir[DayName(d)].shape = "list"
    THEN [raised |-> FALSE, rows |-> dir[DayName(d)].rows]
    ELSE [raised |-> FALSE, rows |-> <<>>]

\* hours * 3600 + minutes * 60 + seconds of daily_delay.split(':'): the
\* number of seconds whose HH:MM:SS text is the delay
DelayToSeconds(text) == CHOOSE n \in 0..MaxDelaySeconds : _seconds_to_hhmmss(n) = text

\* one day of the report for one profile key: whether an exception other
\* than ValueError is raised, whether the staff has records that day, and
\* the seconds of the daily delay.  json.load of bad text raises a ValueError
\* (the day is skipped); r.get on the member name of an object or on a number
\* raises an exception that `except ValueError` lets through.
DayOfReport(dir, faculty_id, d) ==
    LET no_data == [raised |-> FALSE, has_records |-> FALSE, seconds |-> 0] IN
    IF DayName(d) \notin DOMAIN dir THEN no_data
    ELSE LET records == dir[DayName(d)] IN
         IF records.shape = "unparsable" THEN no_data
         ELSE IF records.shape = "object"
                 \/ \E i \in 1..Len(records.rows) : ~IsDict(records.rows[i])
         THEN [raised |-> TRUE, has_records |-> FALSE, seconds |-> 0]
         ELSE LET faculty_records == RecordsOf(records.rows, Upper(faculty_id)) IN
              IF faculty_records = <<>> THEN no_data
              ELSE [raised |-> FALSE, has_records |-> TRUE,
                    seconds |-> DelayToSeconds(
                        compute_daily_delay_for_records(
                            faculty_records, d, determine_staff_type(faculty_id)))]

\* total_delay_seconds after the days 1..d
RECURSIVE TotalDelaySeconds(_, _, _)
TotalDelaySeconds(dir, faculty_id, d) ==
    IF d = 0 THEN 0
    ELSE TotalDelaySeconds(dir, faculty_id, d - 1) + DayOfReport(dir, faculty_id, d).seconds

\* days_with_records after the days of the month
DaysWithRecords(dir, faculty_id) ==
    Cardinality({d \in 1..MaxMonthDay : DayOfReport(dir, faculty_id, d).has_records})

\* api_monthly_delay_report: the response; the outer `except Exception`
\* answers success False as soon as one day raises
api_monthly_delay_report(dir) ==
    IF \E k \in DOMAIN faculty, d \in 1..MaxMonthDay : DayOfReport(dir, k, d).raised
    THEN [success |-> FALSE, data |-> <<>>]
    ELSE [success |-> TRUE,
          data |-> [k \in DOMAIN faculty |->
                       IF DaysWithRecords(dir, k) = 0 THEN "N/A"
                       ELSE _seconds_to_hhmmss(TotalDelaySeconds(dir, k, MaxMonthDay))]]

\* the directory with file n holding content c
PutFile(dir, n, c) == [x \in DOMAIN dir \cup {n} |-> IF x = n THEN c ELSE dir[x]]

\* record.get('delay', '')
DelayGet(r) == IF "delay" \in DOMAIN r THEN r.delay ELSE ""

\* checkin_formatted / checkout_formatted is not 'Not recorded'
Recorded(text) == parse_ts(text) # <<>>

\* Variant of DisplayDelay that shows Absent only for a missing checkin
\* (sensitivity of C21_ListingDelay).
DisplayDelay_CheckinOnly(record) ==
    IF ~Recorded(RowGet(record, "checkin")) THEN "Absent"
    ELSE IF DelayGet(record) # "" /\ DelayGet(record) # "N/A" THEN DelayGet(record)
    ELSE "00:00:00"

\* "refined delay display logic": the delay shown for a record
DisplayDelay(record) ==
    IF ~Recorded(RowGet(record, "checkin")) THEN "Absent"
    ELSE IF ~Recorded(RowGet(record, "checkout")) THEN "Absent"
    ELSE IF DelayGet(record) # "" /\ DelayGet(record) # "N/A" THEN DelayGet(record)
    ELSE "00:00:00"

\* the rows with the delay of their group, for the rows with a staff id
ListingDelays(rows, date_obj) ==
    [i \in 1..Len(rows) |->
        LET sid == Upper(Strip(rows[i].student_id)) IN
        IF sid = <<>> THEN rows[i]
        ELSE SetField(rows[i], "delay",
                      compute_daily_delay_for_records(RecordsOf(rows, sid), date_obj,
                                                      determine_staff_type(sid)))]

\* the records created for the profile keys in S, one after the other
RECURSIVE NoAttendanceRecords(_)
NoAttendanceRecords(S) ==
    IF S = {} THEN <<>>
    ELSE LET k == CHOOSE x \in S : TRUE IN
         <<Event(k, faculty[k].name, NoText, NoText, "N/A")>> \o NoAttendanceRecords(S \ {k})

\* api_attendance: the records of the response for the day, or raised when
\* a row of the list is no dict
api_attendance(dir, d) ==
    LET rows == get_attendance_from_source(dir, d).rows IN
    IF \E i \in 1..Len(rows) : ~IsDict(rows[i]) THEN [raised |-> TRUE, rows |-> <<>>]
    ELSE LET delayed == ListingDelays(rows, d)
             upper == [i \in 1..Len(delayed) |->
                          SetField(delayed[i], "student_id", Upper(delayed[i].student_id))]
             existing_faculty_ids == {Upper(Strip(upper[i].student_id)) : i \in 1..Len(upper)}
             all_faculty_records ==
                 upper \o NoAttendanceRecords({k \in DOMAIN faculty :
                                                  Upper(k) \notin existing_faculty_ids})
         IN  [raised |-> FALSE,
              rows |-> SortRecords([i \in 1..Len(all_faculty_records) |->
                                        SetField(all_faculty_records[i], "delay",
                                                 DisplayDelay(all_faculty_records[i]))],
                                   FALSE)]

Listing ==
    /\ \E d \in 1..MaxMonthDay :
           report' = [op |-> "listing", arg |-> d, out |-> api_attendance(store, d)]
    /\ UNCHANGED <<source, tracking, faculty, date, file, last, query, staff_type, window, result, inflight, store, shape>>

FilesInit ==
    /\ faculty = FacultyTable
    /\ date = 0
    /\ file = <<>>
    /\ last = NoRequest
    /\ query = <<>>
    /\ staff_type = "none"
    /\ window = <<>>
    /\ result = "none"
    /\ inflight = NoInflight
    /\ store = NoStore
    /\ report = NoReport
    /\ source = NoSource
    /\ tracking = NoTracking
    /\ shape = "list"

\* the external writer creates or rewrites a file of the directory
ExternalPut ==
    /\ \E n \in FileNames :
           \E c \in WrittenContents(n.day) : store' = PutFile(store, n, c)
    /\ report' = NoReport
    /\ UNCHANGED <<source, tracking, faculty, date, file, last, query, staff_type, window, result, inflight, shape>>

AnnotateOne ==
    /\ \E n \in DOMAIN store :
           /\ store' = PutFile(store, n, AnnotateFile(n, store[n]))
           /\ report' = [op |-> "annotate", arg |-> n, out |-> <<>>]
    /\ UNCHANGED <<source, tracking, faculty, date, file, last, query, staff_type, window, result, inflight, shape>>

AnnotateAll ==
    /\ store # NoStore
    /\ store' = [n \in DOMAIN store |-> AnnotateFile(n, store[n])]
    /\ report' = [op |-> "annotate_all", arg |-> <<>>, out |-> annotate_all_existing_files(store)]
    /\ UNCHANGED <<source, tracking, faculty, date, file, last, query, staff_type, window, result, inflight, shape>>

ReadDate ==
    /\ \E d \in 1..MaxMonthDay :
           report' = [op |-> "read", arg |-> d, out |-> read_attendance_for_date(store, d)]
    /\ UNCHANGED <<source, tracking, faculty, date, file, last, query, staff_type, window, result, inflight, store, shape>>

ReadSource ==
    /\ \E d \in 1..MaxMonthDay :
           report' = [op |-> "read_source", arg |-> d, out |-> get_attendance_from_source(store, d)]
    /\ UNCHANGED <<source, tracking, faculty, date, file, last, query, staff_type, window, result, inflight, store, shape>>

MonthlyReport ==
    /\ report' = [op |-> "monthly", arg |-> <<>>, out |-> api_monthly_delay_report(store)]
    /\ UNCHANGED <<source, tracking, faculty, date, file, last, query, staff_type, window, result, inflight, store, shape>>

FilesNext ==
    ExternalPut \/ AnnotateOne \/ AnnotateAll \/ ReadDate \/ ReadSource \/ MonthlyReport
        \/ Listing

SpecFiles == FilesInit /\ [][FilesNext]_vars

(***************************************************************************)
(* Delay Calculator (coverage model), used by the stand-alone delay report.*)
(* Times are seconds since day 0, 00:00.                                   *)
(***************************************************************************)
\* the required window of the day: none on a Sunday
CoverageWindow(date_obj, st) ==
    IF Weekday(date_obj) = 6
    THEN [start |-> date_obj * 86400, end |-> date_obj * 86400]
    ELSE [start |-> date_obj * 86400 + get_thresholds_for(date_obj, st)[1],
          end |-> date_obj * 86400 + get_thresholds_for(date_obj, st)[2]]

\* the presence intervals of the events that hold both a usable checkin and
\* a usable checkout, without the intervals of zero or negative length
RECURSIVE PresenceIntervals(_)
PresenceIntervals(records) ==
    IF records = <<>> THEN <<>>
    ELSE LET ci == parse_ts(RowGet(Head(records), "checkin"))
             co == parse_ts(RowGet(Head(records), "checkout"))
             rest == PresenceIntervals(Tail(records))
         IN  IF ci = <<>> \/ co = <<>> THEN rest
             ELSE IF Stamp(co[1]) <= Stamp(ci[1]) THEN rest
             ELSE <<[start |-> Stamp(ci[1]) \div 1000, end |-> Stamp(co[1]) \div 1000]>> \o rest

\* every interval cut to the window; what lies outside of it is dropped
RECURSIVE ClampIntervals(_, _)
ClampIntervals(intervals, w) ==
    IF intervals = <<>> THEN <<>>
    ELSE LET s == IF Head(intervals).start < w.start THEN w.start ELSE Head(intervals).start
             e == IF Head(intervals).end > w.end THEN w.end ELSE Head(intervals).end
             rest == ClampIntervals(Tail(intervals), w)
         IN  IF e <= s THEN rest ELSE <<[start |-> s, end |-> e]>> \o rest

\* sort by start
RECURSIVE InsertByStart(_, _)
InsertByStart(sorted, x) ==
    IF sorted = <<>> THEN <<x>>
    ELSE IF x.start < Head(sorted).start THEN <<x>> \o sorted
    ELSE <<Head(sorted)>> \o InsertByStart(Tail(sorted), x)

RECURSIVE SortByStart(_)
SortByStart(intervals) ==
    IF intervals = <<>> THEN <<>>
    ELSE InsertByStart(SortByStart(Tail(intervals)), Head(intervals))

\* Variant of MergeSorted that closes the running interval at every next
\* interval, so that overlapping presence counts twice (sensitivity of
\* C23_CoverageDelay).
MergeSorted_NoUnion(merged, sorted) == merged \o sorted

\* the interval union: extend the running interval (the last of merged)
\* while the next start <= the running end, else start a new one
RECURSIVE MergeSorted(_, _)
MergeSorted(merged, sorted) ==
    IF sorted = <<>> THEN merged
    ELSE IF merged = <<>> THEN MergeSorted(<<Head(sorted)>>, Tail(sorted))
    ELSE LET running == merged[Len(merged)] IN
         IF Head(sorted).start <= running.end
         THEN MergeSorted(
                  SubSeq(merged, 1, Len(merged) - 1)
                      \o <<[start |-> running.start,
                            end |-> IF Head(sorted).end > running.end
                                    THEN Head(sorted).end ELSE running.end]>>,
                  Tail(sorted))
         ELSE MergeSorted(merged \o <<Head(sorted)>>, Tail(sorted))

RECURSIVE SumDurations(_)
SumDurations(intervals) ==
    IF intervals = <<>> THEN 0
    ELSE (Head(intervals).end - Head(intervals).start) + SumDurations(Tail(intervals))

\* present_seconds of the events of one person on the day
PresentSeconds(records, date_obj, st) ==
    SumDurations(MergeSorted(<<>>,
        SortByStart(ClampIntervals(PresenceIntervals(records), CoverageWindow(date_obj, st)))))

\* delay_seconds = max(0, required_window_seconds - present_seconds)
CoverageDelaySeconds(records, date_obj, st) ==
    LET w == CoverageWindow(date_obj, st)
        d == (w.end - w.start) - PresentSeconds(records, date_obj, st)
    IN  IF d < 0 THEN 0 ELSE d

coverage_delay(records, date_obj, st) ==
    _seconds_to_hhmmss(CoverageDelaySeconds(records, date_obj, st))

\* the events given to the coverage model on day d: the two halves of a day
\* around lunch, an early hour, a stretch across lunch, the lunch hour itself,
\* an interval of no length, an evening, an event without checkout
CoverageRecords(d) ==
    { Event(ID_W3, "Ravi", IsoText(d, HM(8, 30), 0), IsoText(d, HM(12, 0), 0), ""),
      Event(ID_W3, "Ravi", IsoText(d, HM(13, 0), 0), IsoText(d, HM(17, 15), 0), ""),
      Event(ID_W3, "Ravi", IsoText(d, HM(8, 0), 0), IsoText(d, HM(9, 0), 0), ""),
      Event(ID_W3, "Ravi", IsoText(d, HM(11, 0), 0), IsoText(d, HM(14, 0), 0), ""),
      Event(ID_W3, "Ravi", IsoText(d, HM(12, 0), 0), IsoText(d, HM(13, 0), 0), ""),
      Event(ID_W3, "Ravi", IsoText(d, HM(10, 0), 0), IsoText(d, HM(10, 0), 0), ""),
      Event(ID_W3, "Ravi", IsoText(d, HM(18, 0), 0), IsoText(d, HM(19, 0), 0), ""),
      Event(ID_W3, "Ravi", IsoText(d, HM(9, 40), 0), NoText, "") }

CoverageInit ==
    /\ faculty = FacultyTable
    /\ date \in 0..MaxDay
    /\ staff_type \in StaffTypes
    /\ file = <<>>
    /\ last = NoRequest
    /\ query = <<>>
    /\ window = <<>>
    /\ result = "none"
    /\ inflight = NoInflight
    /\ store = NoStore
    /\ report = NoReport
    /\ source = NoSource
    /\ tracking = NoTracking
    /\ shape = "list"

CoverageAppend ==
    /\ Len(file) < MaxEvents
    /\ \E r \in CoverageRecords(date) : file' = Append(file, r)
    /\ result' = "none"
    /\ UNCHANGED <<source, tracking, faculty, date, last, query, staff_type, window, inflight, store, report, shape>>

CoverageCompute ==
    /\ result' = coverage_delay(file, date, staff_type)
    /\ UNCHANGED <<source, tracking, faculty, date, file, last, query, staff_type, window, inflight, store, report, shape>>

CoverageNext == CoverageAppend \/ CoverageCompute

SpecCoverage == CoverageInit /\ [][CoverageNext]_vars

(***************************************************************************)
(* The Sync Engine: source directory -> derived store -> annotation, with  *)
(* the tracking map of last-seen modification times.  The derived store is *)
(* the variable store.                                                     *)
(***************************************************************************)
MaxMtime == 2

\* the initial sentinel of the tracking map
Epoch == 0

SyncNames == {DayName(d) : d \in 1..MaxMonthDay}

\* what the external writer leaves in a source file of day d
SourceContents(d) ==
    { Unparsable, ListContent(<<LegacyRow(d)>>), ListContent(<<StaleRow(d), NoCheckoutRow(d)>>) }

\* the tracked value of file n, the epoch when it is untracked
Tracked(track, n) == IF n \in DOMAIN track THEN track[n] ELSE Epoch

\* Variant of IsNewer that also takes a file whose modification time equals
\* the tracked value (sensitivity of C22_SyncOnlyNewer).
IsNewer_OrSame(src, track, n) == src[n].mtime >= Tracked(track, n)

\* the source modification time is strictly newer than the tracked value
IsNewer(src, track, n) == src[n].mtime > Tracked(track, n)

\* sync(): the files copied for the first time, the files copied again, the
\* errors, and the derived store and the tracking map after the pass
sync(src, track, derived) ==
    LET changed == {n \in DOMAIN src : IsNewer(src, track, n)} IN
    [newly_copied |-> {n \in changed : n \notin DOMAIN track},
     updated |-> {n \in changed : n \in DOMAIN track},
     errors |-> {n \in changed : AnnotateRaises(n, src[n].content)},
     derived |-> [n \in DOMAIN derived \cup changed |->
                     IF n \in changed THEN AnnotateFile(n, src[n].content)
                     ELSE derived[n]],
     tracking |-> [n \in DOMAIN track \cup changed |->
                     IF n \in changed THEN src[n].mtime ELSE track[n]]]

SyncInit ==
    /\ faculty = FacultyTable
    /\ date = 0
    /\ file = <<>>
    /\ last = NoRequest
    /\ query = <<>>
    /\ staff_type = "none"
    /\ window = <<>>
    /\ result = "none"
    /\ inflight = NoInflight
    /\ store = NoStore
    /\ report = NoReport
    /\ source = NoSource
    /\ tracking = NoTracking
    /\ shape = "list"

\* the external writer creates or rewrites a source file; the file system
\* gives it a modification time
SourceWrite ==
    /\ \E n \in SyncNames :
           \E c \in SourceContents(n.day) :
               \E t \in Epoch..MaxMtime :
                   source' = PutFile(source, n, [mtime |-> t, content |-> c])
    /\ report' = NoReport
    /\ UNCHANGED <<tracking, faculty, date, file, last, query, staff_type, window, result, inflight, store, shape>>

\* one full pass: on demand or from the background cycle, one at a time
SyncPass ==
    /\ LET pass == sync(source, tracking, store) IN
           /\ store' = pass.derived
           /\ tracking' = pass.tracking
           /\ report' = [op |-> "sync",
                         arg |-> [source |-> source, tracking |-> tracking, derived |-> store],
                         out |-> [newly_copied |-> pass.newly_copied,
                                  updated |-> pass.updated, errors |-> pass.errors]]
    /\ UNCHANGED <<source, faculty, date, file, last, query, staff_type, window, result, inflight, shape>>

SyncNext == SourceWrite \/ SyncPass

SpecSync == SyncInit /\ [][SyncNext]_vars

(***************************************************************************)
(* Claims C11 - C20.                                                       *)
(***************************************************************************)
\* how many events of the records are e, delay aside
CountOf(records, c) == Cardinality({i \in 1..Len(records) : Core(records[i]) = c})

\* C11: a DayFile read-modify-write loses nothing.  When a request thread
\* writes the DayFile, every event that another party has put into the file
\* since the thread read it, and that the request is not about (an event of
\* another staff id, or any event when the request is an add), is still in
\* the file after the write.
C11_NoLostWrite ==
    [][\A p \in Threads :
          (inflight[p].op # "idle" /\ inflight'[p].op = "idle")
          => \A i \in 1..Len(file) :
                 LET c == Core(file[i]) IN
                 (/\ CountOf(file, c) > CountOf(inflight[p].snap, c)
                  /\ \/ inflight[p].op = "add"
                     \/ ~SameId(file[i], RequestedId(inflight[p].req)))
                 => CountOf(file', c) >= CountOf(file, c)]_vars

\* C12: annotation is idempotent.  For every file of the directory, a second
\* annotate_file_with_delay on the output of a first one leaves the content
\* as it is: same events, same order, same field values, delay included.
C12_AnnotateIdempotent ==
    \A n \in DOMAIN store :
        AnnotateFile(n, AnnotateFile(n, store[n])) = AnnotateFile(n, store[n])

\* C12 witness: a file holding a legacy timestamp-only row next to a row
\* with a stale delay has been annotated; the legacy row now has a checkin,
\* a checkout and the delay of its group.
C12_Witness ==
    /\ report.op = "annotate"
    /\ store[report.arg].shape = "list"
    /\ \E i \in 1..Len(store[report.arg].rows) :
           LET row == store[report.arg].rows[i] IN
           /\ IsDict(row)
           /\ "timestamp" \in DOMAIN row
           /\ DOMAIN row = {"student_id", "name", "timestamp", "checkin", "checkout", "delay"}
           /\ row.checkin = row.timestamp
           /\ row.delay = "00:05:00"

\* the positions of the events of staff fid whose checkin, as HH:MM:SS, is
\* the claimed current checkin
ClaimedCheckinMatches(records, fid, req) ==
    {i \in 1..Len(records) :
        /\ Upper(Strip(records[i].student_id)) = fid
        /\ TimeOnly(records[i].checkin) = req.current_checkin}

\* the positions of the events of staff fid whose checkout, as HH:MM:SS, is
\* the claimed current checkout and whose checkin is the expected one, if any
ClaimedCheckoutMatches(records, fid, req) ==
    {i \in 1..Len(records) :
        /\ Upper(Strip(records[i].student_id)) = fid
        /\ TimeOnly(records[i].checkout) = req.current_checkout
        /\ (req.current_checkin # <<>>
               => TimeOnly(records[i].checkin) = req.current_checkin)}

\* C13: an update that carries a checkin or a checkout for a staff id with
\* events, none of which is matched by the claimed current values (neither
\* by the checkin rule nor by the checkout rule the request falls under),
\* is applied to the first event of that staff id in file order; every other
\* event is kept and none is added.
C13_FallbackToFirst ==
    \A req \in UpdateRequests :
        LET fid == RequestedId(req)
            ids == {i \in 1..Len(file) : Upper(Strip(file[i].student_id)) = fid}
            out == api_update_attendance(file, req)
        IN  (/\ ids # {}
             /\ req.has_checkin \/ req.has_checkout
             /\ req.has_checkin => ClaimedCheckinMatches(file, fid, req) = {}
             /\ req.has_checkout => ClaimedCheckoutMatches(file, fid, req) = {}
             /\ out.resp = "ok")
            => LET k == CHOOSE i \in ids : \A j \in ids : i <= j IN
               /\ Len(out.file) = Len(file)
               /\ SameEvents(out.file, [file EXCEPT ![k] = ApplyTimes(file[k], req).rec])

\* C13 witness: an update found no event by value and was applied by
\* fallback for a staff id that has two or more events.
C13_Witness ==
    /\ last.op = "update" /\ last.resp = "ok"
    /\ last.how = "fallback"
    /\ Cardinality(IndexesOf(file, last.id)) >= 2

\* the stored text of a requested time of day: '' for a cleared or missing
\* value, the ISO text of that time on the file's date otherwise
RequestedText(has, text) ==
    IF ~has \/ Strip(text) = <<>> THEN NoText
    ELSE IsoText(date, strptime_HMS(Strip(text))[1], 0)

\* the two lists hold the same events, delays included, order aside
SameRecords(r1, r2) ==
    /\ Len(r1) = Len(r2)
    /\ \A i \in 1..Len(r1) :
           Cardinality({j \in 1..Len(r1) : r1[j] = r1[i]})
               = Cardinality({j \in 1..Len(r2) : r2[j] = r1[i]})

\* the request names a staff id and its times, if any, are HH:MM:SS
WellFormed(req) ==
    /\ RequestedId(req) # <<>>
    /\ ~(req.has_checkin /\ NotATime(req.checkin))
    /\ ~(req.has_checkout /\ NotATime(req.checkout))

\* C14: a well-formed update for a staff id that has no events on the date
\* (the day's data holds none: the DayFile holds other staff only, is empty,
\* or is missing or no list and so counts as no data) succeeds and adds
\* exactly one event of that staff id, carrying the requested checkin and
\* checkout, and leaves every existing event as it was.
C14_SynthesizeWhenAbsent ==
    \A req \in UpdateRequests :
        LET fid == RequestedId(req)
            out == UpdateDayFile(shape, file, req)
            mine == {i \in 1..Len(out.file) : Upper(Strip(out.file[i].student_id)) = fid}
        IN  ((\A i \in 1..Len(file) : Upper(Strip(file[i].student_id)) # fid)
                /\ WellFormed(req))
            => /\ out.resp = "ok"
               /\ Len(out.file) = Len(file) + 1
               /\ Cardinality(mine) = 1
               /\ \A i \in mine :
                      /\ out.file[i].checkin = RequestedText(req.has_checkin, req.checkin)
                      /\ out.file[i].checkout = RequestedText(req.has_checkout, req.checkout)
               /\ SameRecords(RecordsNotOf(out.file, fid), file)

\* the staff ids of the runs, trimmed and in upper case
StaffIds == {ID_T1, ID_W3}

\* C15: a staff id that has an event in the DayFile has an event in it after
\* every update, add, delete-all and delete-one, whatever the response.
C15_StaffStaysVisible ==
    [][\A id \in StaffIds :
          IndexesOf(file, id) # {} => IndexesOf(file', id) # {}]_vars

\* C15 witness: a delete-all has removed every event of a staff id and the
\* staff id is still in the DayFile, next to another staff member's event.
C15_Witness ==
    /\ last.op = "delete" /\ last.resp = "ok"
    /\ IndexesOf(file, last.id) # {}
    /\ IndexesOf(file, ID_W3) # {}

\* annotation of the file cannot be done: the content is no JSON, is no
\* list, or the file name is no date
AnnotationFails(name, content) ==
    \/ ~name.is_date
    \/ content.shape \in {"unparsable", "object"}

\* a date file whose content is a list of records
Annotatable(name, content) ==
    /\ name.is_date
    /\ content.shape = "list"
    /\ \A i \in 1..Len(content.rows) : IsDict(content.rows[i])

\* C16: batch annotation isolates failures.  After annotate_all_existing_files
\* every file whose annotation failed is in the errors of the result and not
\* among the annotated, and every other file is annotated: it is listed as
\* annotated and its rows carry the delays of their groups.
C16_BatchIsolatesFailures ==
    report.op = "annotate_all"
    => \A n \in DOMAIN store :
           /\ AnnotationFails(n, store[n])
                  => n \in report.out.errors /\ n \notin report.out.annotated
           /\ Annotatable(n, store[n])
                  => /\ n \in report.out.annotated
                     /\ \A i \in 1..Len(store[n].rows) : "delay" \in DOMAIN store[n].rows[i]
                     /\ AnnotateFile(n, store[n]) = store[n]

\* C17: reads fail closed.  For every day, read_attendance_for_date and
\* get_attendance_from_source raise nothing; they return the stored list
\* unchanged when the day file holds a list, and the empty list when the
\* file is absent, not parsable or holds anything else.
C17_ReadsFailClosed ==
    \A d \in 1..MaxMonthDay :
        LET r == read_attendance_for_date(store, d)
            g == get_attendance_from_source(store, d)
            expected == IF DayName(d) \in DOMAIN store /\ store[DayName(d)].shape = "list"
                        THEN store[DayName(d)].rows
                        ELSE <<>>
        IN  /\ ~r.raised /\ r.rows = expected
            /\ ~g.raised /\ g.rows = expected

\* C17 witness: a day file holding a JSON object has been read and the
\* empty list was returned.
C17_Witness ==
    /\ report.op = "read"
    /\ DayName(report.arg) \in DOMAIN store
    /\ store[DayName(report.arg)].shape = "object"
    /\ report.out = [raised |-> FALSE, rows |-> <<>>]

\* the days of the month whose file holds a list of records
WellFormedDays == {d \in 1..MaxMonthDay :
                      DayName(d) \in DOMAIN store /\ Annotatable(DayName(d), store[DayName(d)])}

\* the records of the staff under profile key k on a well-formed day d
DayRecords(k, d) == RecordsOf(store[DayName(d)].rows, Upper(Strip(k)))

\* the seconds of the daily delays of the staff under profile key k over the
\* well-formed days among 1..d
RECURSIVE ClaimedSeconds(_, _)
ClaimedSeconds(k, d) ==
    IF d = 0 THEN 0
    ELSE ClaimedSeconds(k, d - 1)
         + (IF d \in WellFormedDays /\ DayRecords(k, d) # <<>>
            THEN DelayToSeconds(compute_daily_delay_for_records(
                                    DayRecords(k, d), d, determine_staff_type(k)))
            ELSE 0)

\* C18: one bad day never spoils the rest.  The monthly delay report
\* succeeds whatever the day files hold, and gives for every staff member
\* of the profile table the sum of the daily delays over the well-formed
\* days (N/A when the staff has records on none of them); a day file that is
\* not parsable, is no list or holds rows that are no records counts as no
\* data.
C18_BadDayIsolated ==
    report.op = "monthly"
    => /\ report.out.success
       /\ \A k \in DOMAIN faculty :
              report.out.data[k] =
                  IF \A d \in WellFormedDays : DayRecords(k, d) = <<>> THEN "N/A"
                  ELSE _seconds_to_hhmmss(ClaimedSeconds(k, MaxMonthDay))

\* C19: the classifier lookup is case-insensitive and trimmed.  A queried id
\* that, trimmed and letter case aside, is the key of a stored profile is
\* classified by that profile, whatever the spelling of the queried id and
\* whatever the letter case of the stored key.
C19_LookupIgnoresCase ==
    staff_type # "none"
    => \A k \in DOMAIN faculty :
           Upper(Strip(k)) = Upper(Strip(query)) => staff_type = StaffTypeOf(faculty[k])

\* C20: a successful update that carries a checkout, with or without a new
\* checkin, changes the first event of the staff id, in file order, whose
\* checkout re-formatted to HH:MM:SS equals the claimed current checkout and,
\* when an expected checkin is given, whose checkin equals it; no other
\* event's checkin or checkout changes.
C20_CheckoutFirstMatch ==
    \A req \in UpdateRequests :
        LET fid == RequestedId(req)
            m == ClaimedCheckoutMatches(file, fid, req)
            out == api_update_attendance(file, req)
        IN  (req.has_checkout /\ m # {} /\ out.resp = "ok")
            => LET k == CHOOSE i \in m : \A j \in m : i <= j IN
               SameEvents(out.file, [file EXCEPT ![k] = ApplyTimes(file[k], req).rec])

(***************************************************************************)
(* Claims C21 - C30.                                                       *)
(***************************************************************************)
\* what the listing shows of an event: the id in upper case, the times as
\* stored, and a delay
Shown(e, dl) ==
    [id |-> Upper(e.student_id), checkin |-> RowGet(e, "checkin"),
     checkout |-> RowGet(e, "checkout"), delay |-> dl]

\* the events of the day: the rows of the day file, none when it is no list
EventsOfDay(d) ==
    IF DayName(d) \in DOMAIN store /\ store[DayName(d)].shape = "list"
    THEN store[DayName(d)].rows
    ELSE <<>>

\* the delay the listing is to show for event e of the events rows
ClaimedShownDelay(rows, e, d) ==
    IF parse_ts(RowGet(e, "checkin")) = <<>> \/ parse_ts(RowGet(e, "checkout")) = <<>>
    THEN "Absent"
    ELSE compute_daily_delay_for_records(
             RecordsOf(rows, Upper(Strip(e.student_id))), d,
             determine_staff_type(e.student_id))

\* the profile keys without an event among rows
ProfilesWithoutEvent(rows) ==
    {k \in DOMAIN faculty :
        \A i \in 1..Len(rows) : Upper(Strip(rows[i].student_id)) # Upper(Strip(k))}

\* C21: the attendance listing of a day whose file holds records shows every
\* event once, with delay Absent exactly when the event has no usable checkin
\* or no usable checkout and with the computed delay of its staff member
\* otherwise, and shows every staff id of the profile table that has no
\* event that day once, with delay Absent; it shows nothing else.
C21_ListingDelay ==
    (report.op = "listing"
        /\ \A i \in 1..Len(EventsOfDay(report.arg)) : IsDict(EventsOfDay(report.arg)[i]))
    => LET rows == EventsOfDay(report.arg)
           out == report.out.rows
           absent == ProfilesWithoutEvent(rows)
       IN  /\ ~report.out.raised
           /\ Len(out) = Len(rows) + Cardinality(absent)
           /\ \A i \in 1..Len(rows) :
                  LET x == Shown(rows[i], ClaimedShownDelay(rows, rows[i], report.arg)) IN
                  Cardinality({j \in 1..Len(out) : Shown(out[j], out[j].delay) = x})
                      = Cardinality({j \in 1..Len(rows) :
                            Shown(rows[j], ClaimedShownDelay(rows, rows[j], report.arg)) = x})
           /\ \A k \in absent :
                  Cardinality({j \in 1..Len(out) :
                                  out[j].student_id = k /\ out[j].delay = "Absent"}) = 1

\* C21 witness: a listing shows an event with its computed delay of five
\* minutes, an event with a checkin and no checkout as Absent, and another
\* day without a file shows both staff of the profile table as Absent.
C21_Witness ==
    /\ report.op = "listing"
    /\ ~report.out.raised
    /\ \E j \in 1..Len(report.out.rows) : report.out.rows[j].delay = "00:05:00"
    /\ \E j \in 1..Len(report.out.rows) :
           /\ report.out.rows[j].delay = "Absent"
           /\ parse_ts(RowGet(report.out.rows[j], "checkin")) # <<>>
    /\ \E d \in 1..MaxMonthDay : Len(api_attendance(store, d).rows) = Cardinality(DOMAIN faculty)

\* C22: a sync pass copies and annotates a source file exactly when its
\* modification time strictly exceeds the tracked value, the epoch when the
\* file is untracked, and leaves the other files of the derived store as
\* they were; a pass that follows a pass with no source change in between
\* reports no newly copied and no updated file.
C22_SyncOnlyNewer ==
    report.op = "sync"
    => LET before == report.arg
           copied == report.out.newly_copied \cup report.out.updated
           again == sync(source, tracking, store)
       IN  /\ \A n \in DOMAIN before.source :
                  /\ n \in copied <=> before.source[n].mtime > Tracked(before.tracking, n)
                  /\ n \in copied
                         => /\ store[n] = AnnotateFile(n, before.source[n].content)
                            /\ tracking[n] = before.source[n].mtime
                  /\ (n \notin copied /\ n \in DOMAIN before.derived)
                         => store[n] = before.derived[n]
           /\ source = before.source
           /\ again.newly_copied = {}
           /\ again.updated = {}

\* C22 witness: a pass copies a rewritten file again and leaves a file alone
\* whose modification time is the tracked one.
C22_Witness ==
    /\ report.op = "sync"
    /\ report.out.updated # {}
    /\ \E n \in DOMAIN source :
           /\ n \notin report.out.newly_copied \cup report.out.updated
           /\ n \in DOMAIN report.arg.tracking
           /\ source[n].mtime = report.arg.tracking[n]

\* the minutes of the required window during which the person is present
\* according to some event of records (all times of the events and of the
\* windows are whole minutes)
PresentMinutes(records, date_obj, st) ==
    LET w == CoverageWindow(date_obj, st) IN
    {m \in (w.start \div 60)..((w.end \div 60) - 1) :
        \E i \in 1..Len(records) :
            /\ parse_ts(records[i].checkin) # <<>>
            /\ parse_ts(records[i].checkout) # <<>>
            /\ Stamp(parse_ts(records[i].checkin)[1]) <= m * 60000
            /\ (m + 1) * 60000 <= Stamp(parse_ts(records[i].checkout)[1])}

\* the two intervals of the example: 08:30-12:00 and 13:00-17:15
LunchGapDay(d) ==
    << Event(ID_W3, "Ravi", IsoText(d, HM(8, 30), 0), IsoText(d, HM(12, 0), 0), ""),
       Event(ID_W3, "Ravi", IsoText(d, HM(13, 0), 0), IsoText(d, HM(17, 15), 0), "") >>

\* C23: the coverage model gives the required window's length minus the
\* length of the union of the person's checkin/checkout intervals inside the
\* window, and no less than zero; for Support on a weekday with the intervals
\* 08:30-12:00 and 13:00-17:15 it gives 01:00:00.
C23_CoverageDelay ==
    result # "none"
    => LET w == CoverageWindow(date, staff_type)
           present_seconds == 60 * Cardinality(PresentMinutes(file, date, staff_type))
           delay_seconds == IF (w.end - w.start) - present_seconds < 0 THEN 0
                            ELSE (w.end - w.start) - present_seconds
       IN  /\ result = _seconds_to_hhmmss(delay_seconds)
           /\ (file = LunchGapDay(date) /\ staff_type = "support" /\ Weekday(date) < 5)
                  => result = "01:00:00"

\* C23 witness: the delay of three events of which two overlap and one lies
\* partly before the window has been computed on a weekday.
C23_Witness ==
    /\ result # "none"
    /\ Weekday(date) < 5
    /\ Len(file) = 3
    /\ file[1].checkin = IsoText(date, HM(8, 0), 0)
    /\ file[2].checkin = IsoText(date, HM(11, 0), 0)
    /\ file[3].checkin = IsoText(date, HM(8, 30), 0)

\* the sort key of the staff id of an event
IdKey(e) == Upper(Strip(e.student_id))

\* C24: after a successful update, add, delete-all or delete-one the stored
\* DayFile is in non-decreasing order of the trimmed, upper-cased staff id;
\* after a successful update or add the events of one staff id are also in
\* non-decreasing order of their stored checkin value.
C24_StoredOrder ==
    (last.op \in Mutations /\ last.resp = "ok")
    => \A i \in 1..Len(file) : \A j \in 1..Len(file) :
           i < j
           => /\ ~StrLess(IdKey(file[j]), IdKey(file[i]))
              /\ (last.op \in {"update", "add"} /\ IdKey(file[i]) = IdKey(file[j]))
                     => ~TextLess(file[j].checkin, file[i].checkin)

\* C24 witness: an add has put its event, the earliest checkin of its
\* staff id, before an event of that id and before an event of another id.
C24_Witness ==
    /\ last.op = "add"
    /\ last.resp = "ok"
    /\ Len(file) = 3
    /\ IdKey(file[1]) = IdKey(file[2])
    /\ TextLess(file[1].checkin, file[2].checkin)
    /\ file[1].checkin = IsoText(date, HM(9, 40), 0)
    /\ StrLess(IdKey(file[2]), IdKey(file[3]))

\* the events after are the events before, annotated for day d: as many, in
\* the same order, each with the fields it had and checkin, checkout, delay
AnnotatedFrom(before, after, d) ==
    /\ Len(after) = Len(before)
    /\ \A i \in 1..Len(before) :
           LET b == before[i]
               a == after[i]
               legacy == "checkin" \notin DOMAIN b /\ "timestamp" \in DOMAIN b
           IN  /\ DOMAIN a = DOMAIN b \cup {"checkout", "delay"}
                                \cup (IF legacy THEN {"checkin"} ELSE {})
               /\ legacy => a.checkin = b.timestamp
               /\ "checkout" \notin DOMAIN b => a.checkout = NoText
               /\ a.delay = compute_daily_delay_for_records(
                                RecordsOf(after, IdKey(a)), d,
                                determine_staff_type(a.student_id))
               /\ \A k \in DOMAIN b : k # "delay" => a[k] = b[k]

C26_OtherStaffUntouched ==
    [][(last'.op \in Mutations /\ last'.resp = "ok")
       => SameRecords(RecordsNotOf(file, last'.id), RecordsNotOf(file', last'.id))]_vars

\* C26 witness: an add for staff T1 has succeeded on a file that holds an
\* event of staff W3, whose delay is not the one of staff T1.
C26_Witness ==
    /\ last.op = "add"
    /\ last.resp = "ok"
    /\ last.id = ID_T1
    /\ \E i \in 1..Len(file) : \E j \in 1..Len(file) :
           /\ IdKey(file[i]) = ID_W3
           /\ IdKey(file[j]) = ID_T1
           /\ file[i].delay # file[j].delay

\* C27: delete-one-by-position is bounds-checked.  For a staff id with n
\* events in the DayFile, a request whose record_index lies outside 0..n-1
\* (too large or negative) is answered with an error and leaves the DayFile
\* as it is, and a request whose index lies inside 0..n-1 removes exactly the
\* event at that position among the staff id's events in file order.
C27_IndexBoundsChecked ==
    \A req \in DeleteOneRequests :
        LET fid == RequestedId(req)
            mine == IndexList(file, fid, 1)
            n == Len(mine)
            out == DeleteOneDayFile(shape, file, req)
        IN  (shape = "list" /\ n > 0)
            => /\ (req.record_index < 0 \/ req.record_index >= n)
                      => out.resp # "ok" /\ out.file = file
               /\ (req.record_index >= 0 /\ req.record_index < n)
                      => /\ out.resp = "ok"
                         /\ SameRecords(
                                RecordsOf(out.file, fid),
                                IF n = 1 THEN <<PlaceholderRecord(fid)>>
                                ELSE RecordsOf(Pop(file, mine[req.record_index + 1]), fid))

\* C28: a successful add appends exactly one event and removes none, also
\* when the staff id's only event is a placeholder: after a delete-all for a
\* staff id followed by an add for the same staff id the DayFile holds two
\* events of that staff id, the placeholder with empty checkin and checkout
\* and the added event, both carrying the recomputed delay.
C28_AddKeepsPlaceholder ==
    [][(last'.op = "add" /\ last'.resp = "ok")
       => /\ Len(file') = Len(file) + 1
          /\ \A i \in 1..Len(file) :
                 CountOf(file', Core(file[i])) >= CountOf(file, Core(file[i]))
          /\ (last.op = "delete" /\ last.resp = "ok" /\ last.id = last'.id)
                 => LET mine == RecordsOf(file', last'.id) IN
                    /\ Len(mine) = 2
                    /\ \E k \in 1..2 : Core(mine[k]) = Core(PlaceholderRecord(last'.id))
                    /\ \A k \in 1..2 :
                           mine[k].delay = compute_daily_delay_for_records(
                                               mine, date, determine_staff_type(last'.id))]_vars

\* C28 witness: after a delete-all and an add of 9:40 - 16:00 the staff id
\* has the placeholder and the added event, both with the delay 00:45:00.
C28_Witness ==
    /\ last.op = "add"
    /\ last.resp = "ok"
    /\ Len(RecordsOf(file, last.id)) = 2
    /\ RecordsOf(file, last.id)[1] = [PlaceholderRecord(last.id) EXCEPT !.delay = "00:45:00"]
    /\ RecordsOf(file, last.id)[2].checkin = IsoText(date, HM(9, 40), 0)
    /\ RecordsOf(file, last.id)[2].checkout = IsoText(date, HM(16, 0), 0)
    /\ RecordsOf(file, last.id)[2].delay = "00:45:00"

\* the events hold a usable checkin and a usable checkout
HasCheckinAndCheckout(records) ==
    ParsedField(records, "checkin") # <<>> /\ ParsedField(records, "checkout") # <<>>

\* all usable timestamps of the events lie on one calendar date
OnOneDate(records) ==
    \A x \in 1..Len(ParsedField(records, "checkin") \o ParsedField(records, "checkout")) :
        (ParsedField(records, "checkin") \o ParsedField(records, "checkout"))[x].day
            = (ParsedField(records, "checkin") \o ParsedField(records, "checkout"))[1].day

\* the seconds of the deadline-model delay of events with checkin and checkout
DeadlineDelaySeconds(records, date_obj, st) ==
    LateSeconds(EarliestIn(ParsedField(records, "checkin")),
                get_thresholds_for(date_obj, st)[1])
    + EarlyLeaveSeconds(LatestOut(ParsedField(records, "checkout")),
                        get_thresholds_for(date_obj, st)[2])

\* C29: adding presence never increases the deadline-model delay.  For
\* events that hold a usable checkin and a usable checkout, one more event,
\* with all timestamps on one calendar date, gives a delay that is less than
\* or equal to the delay before.
C29_PresenceNeverHurts ==
    \A r \in CalcRecords(date) :
        (HasCheckinAndCheckout(file) /\ OnOneDate(Append(file, r)))
        => /\ compute_daily_delay_for_records(file, date, staff_type)
                  = _seconds_to_hhmmss(DeadlineDelaySeconds(file, date, staff_type))
           /\ compute_daily_delay_for_records(Append(file, r), date, staff_type)
                  = _seconds_to_hhmmss(DeadlineDelaySeconds(Append(file, r), date, staff_type))
           /\ DeadlineDelaySeconds(Append(file, r), date, staff_type)
                  <= DeadlineDelaySeconds(file, date, staff_type)

\* C29 witness: the delay of two events on one date has been computed, and
\* it is shorter than the delay of the first event alone, which has a
\* checkin and a checkout.
C29_Witness ==
    /\ result # "none"
    /\ Len(file) = 2
    /\ HasCheckinAndCheckout(<<file[1]>>)
    /\ OnOneDate(file)
    /\ parse_ts(file[2].checkin) # <<>>
    /\ result = _seconds_to_hhmmss(DeadlineDelaySeconds(file, date, staff_type))
    /\ DeadlineDelaySeconds(file, date, staff_type)
           < DeadlineDelaySeconds(<<file[1]>>, date, staff_type)

\* the valid times T a client may send: padded and not
ValidTimes == {T_0940, T_940}

\* C30: update then resolve round-trips by value.  After a successful update
\* of the checkin of a staff id to a valid time T, a following checkin update
\* of that staff id that names T as its current checkin is resolved by value
\* match, not by the first-event fallback, to an event whose stored checkin
\* is T on the file's date.
C30_UpdateThenResolve ==
    \A f \in RequestIds : \A T \in ValidTimes : \A cci \in {<<>>, T_0910, T_0940} :
        LET first == UpdateDayFile(shape, file,
                                   UpdateRequest(f, TRUE, T, FALSE, <<>>, cci, <<>>))
            t == ResolveTarget(first.file, Upper(Strip(f)),
                               UpdateRequest(f, TRUE, T_0910, FALSE, <<>>, T, <<>>))
        IN  first.resp = "ok"
            => /\ t.how = "value"
               /\ t.index # 0
               /\ first.file[t.index].checkin = IsoText(date, strptime_HMS(T)[1], 0)

====
